---- MODULE Spec2Model ----
(***************************************************************************)
(* State-machine model of the scenario calculator of valuation_app        *)
(* (src/src/valuation_app/services/calculator.py) together with the        *)
(* record facility (src/src/pydantic/__init__.py) that constructs its      *)
(* input and the date helper (src/src/dateutil/relativedelta.py).          *)
(*                                                                         *)
(* Numbers.  The program computes on Python floats.  The model computes    *)
(* on exact rationals <<n, d>> (d > 0, lowest terms): every +, -, *, /     *)
(* and integer power of the source is the same operation on rationals, and *)
(* a division by zero is the ZeroDivisionError Python raises for it.       *)
(* The rounding of a float operation is modelled where the program adds    *)
(* back a difference it has just taken, the min-cash backstop (Fl, with a  *)
(* significand of SignificandBits bits where a Python float has 53);       *)
(* everywhere else the arithmetic is exact.  The two places of the source  *)
(* that need a fractional power, (1 + wacc) ** (i / 12) of                 *)
(* _build_valuation and InflationIndex.monthly_factor, are left out: the   *)
(* modelled result carries no present value of the DCF, and                *)
(* PriceAdjustment is modelled without an indexer.                         *)
(***************************************************************************)
EXTENDS Integers, Sequences, FiniteSets, TLC

(***************************************************************************)
(* Exact rational arithmetic standing for Python's float arithmetic.       *)
(***************************************************************************)
Abs(i) == IF i < 0 THEN -i ELSE i

RECURSIVE GCD(_, _)
GCD(a, b) == IF b = 0 THEN a ELSE GCD(b, a % b)

Norm(n, d) ==
  LET s == IF d < 0 THEN -1 ELSE 1
      g == GCD(Abs(n), Abs(d))
  IN  <<(s * n) \div g, (s * d) \div g>>

R(i) == <<i, 1>>
Frac(n, d) == Norm(n, d)
Zero == R(0)
One == R(1)

\* a + b: the integer parts and the fractional parts are added apart, so
\* that no intermediate exceeds the result's own numerator.
RAdd(a, b) ==
  LET ia == a[1] \div a[2]
      ib == b[1] \div b[2]
      g == GCD(a[2], b[2])
      l == (a[2] \div g) * b[2]
      f == Norm((a[1] - ia * a[2]) * (l \div a[2])
                + (b[1] - ib * b[2]) * (l \div b[2]), l)
  IN  <<(ia + ib) * f[2] + f[1], f[2]>>

RNeg(a) == <<-a[1], a[2]>>
RSub(a, b) == RAdd(a, RNeg(b))

RMul(a, b) ==
  LET g1 == GCD(Abs(a[1]), b[2])
      g2 == GCD(Abs(b[1]), a[2])
  IN  IF a[1] = 0 \/ b[1] = 0 THEN Zero
      ELSE <<(a[1] \div g1) * (b[1] \div g2), (a[2] \div g2) * (b[2] \div g1)>>

\* a / b for b # 0; the callers model b = 0 as ZeroDivisionError.
RDiv(a, b) == RMul(a, Norm(b[2], b[1]))

\* a < b, compared by integer parts and then, Euclid's way, by the
\* reciprocals of the fractional parts, so that no product is formed.
RECURSIVE RLt(_, _)
RLt(a, b) ==
  LET fa == a[1] \div a[2]
      fb == b[1] \div b[2]
      ra == a[1] - fa * a[2]
      rb == b[1] - fb * b[2]
  IN  IF fa # fb THEN fa < fb
      ELSE IF rb = 0 THEN FALSE
      ELSE IF ra = 0 THEN TRUE
      ELSE RLt(<<b[2], rb>>, <<a[2], ra>>)

RLe(a, b) == ~RLt(b, a)
IsZero(a) == a[1] = 0
\* Python's truth value of a number: anything but zero.
Truthy(a) == a[1] # 0

\* Python's max(a, b) and min(a, b): the first argument unless the second
\* is strictly larger (smaller).
RMax(a, b) == IF RLt(a, b) THEN b ELSE a
RMin(a, b) == IF RLt(b, a) THEN b ELSE a

\* The width of the significand of the floats modelled; a Python float
\* (IEEE-754 binary64) has 53 bits.
SignificandBits == 10

\* The integer nearest to a, a tie going to the even one.
RoundHalfEven(a) ==
  LET floor == a[1] \div a[2]
      rest == a[1] - floor * a[2]
  IN  IF 2 * rest < a[2] THEN floor
      ELSE IF 2 * rest > a[2] THEN floor + 1
      ELSE IF floor % 2 = 0 THEN floor ELSE floor + 1

\* The float nearest to a: a is scaled by powers of two until its magnitude
\* has SignificandBits bits before the point, rounded there (half to even,
\* IEEE-754's default), and scaled back.  The exponent range is not bounded.
RECURSIVE Fl(_)
Fl(a) ==
  IF IsZero(a) THEN Zero
  ELSE IF ~RLt(<<Abs(a[1]), a[2]>>, R(2 ^ SignificandBits))
    THEN RMul(R(2), Fl(RDiv(a, R(2))))
  ELSE IF RLt(<<Abs(a[1]), a[2]>>, R(2 ^ (SignificandBits - 1)))
    THEN RDiv(Fl(RMul(a, R(2))), R(2))
  ELSE R(RoundHalfEven(a))

RECURSIVE RPow(_, _)
RPow(a, k) == IF k <= 0 THEN One ELSE RMul(a, RPow(a, k - 1))

IMax(i, j) == IF i < j THEN j ELSE i

RECURSIVE RSum(_)
RSum(s) == IF s = <<>> THEN Zero ELSE RAdd(Head(s), RSum(Tail(s)))

(***************************************************************************)
(* The record facility: src/src/pydantic/__init__.py.                      *)
(***************************************************************************)
\* A call either returns a value or raises:
\* [error |-> "", value |-> v] or [error |-> <exception name>].
Returns(v) == [error |-> "", value |-> v]
Raises(e) == [error |-> e, value |-> Zero]

ValidationError == "ValidationError"

\* conint(**_) returns the plain type int: the keyword bounds (ge = 1) are
\* dropped, so the annotation admits every integer.
conint(ge) == "int"

\* BaseModel.__init__(**data): every declared field is taken from data, a
\* field that is absent and has no default raises ValidationError; the
\* annotations (the values of `fields`) are never consulted.
BaseModelInit(fields, data) ==
  IF \E name \in DOMAIN fields : name \notin DOMAIN data
    THEN Raises(ValidationError)
    ELSE Returns(data)

\* class TimeframeSettings: start_date: date, months: conint(ge=1).
TimeframeSettings(data) ==
  BaseModelInit([start_date |-> "date", months |-> conint(1)], data)

(***************************************************************************)
(* The date helper: src/src/dateutil/relativedelta.py.                     *)
(***************************************************************************)
_last_day_of_month(year, month) ==
  IF month \in {1, 3, 5, 7, 8, 10, 12} THEN 31
  ELSE IF month \in {4, 6, 9, 11} THEN 30
  ELSE IF (year % 4 = 0 /\ year % 100 # 0) \/ (year % 400 = 0) THEN 29
  ELSE 28

\* _add_months without the carry into the year.
_add_monthsSameYear(dt, months) ==
  LET month == ((dt.month - 1 + months) % 12) + 1
      day == IF dt.day < _last_day_of_month(dt.year, month)
               THEN dt.day ELSE _last_day_of_month(dt.year, month)
  IN  [year |-> dt.year, month |-> month, day |-> day]

_add_months(dt, months) ==
  LET month0 == dt.month - 1 + months
      year == dt.year + (month0 \div 12)
      month == (month0 % 12) + 1
      day == IF dt.day < _last_day_of_month(year, month)
               THEN dt.day ELSE _last_day_of_month(year, month)
  IN  [year |-> year, month |-> month, day |-> day]

(***************************************************************************)
(* The input models: src/src/valuation_app/models.                         *)
(***************************************************************************)
\* MonthlySchedule.value_for
value_for(schedule, month_index) ==
  IF month_index \in DOMAIN schedule.adjustments
    THEN schedule.adjustments[month_index]
    ELSE schedule.default

\* SeasonalPattern.factor
factor(pattern, month_index) == pattern[(month_index % 12) + 1]

\* PriceAdjustment.factor_for_month with indexer = None
factor_for_month(price_adjustment, month_index) ==
  price_adjustment.custom_monthly_rate

\* CompanyState.net_fixed_assets
net_fixed_assets(company_state) ==
  RMax(Zero, RSub(company_state.fixed_assets,
                  company_state.accumulated_depreciation))

(***************************************************************************)
(* ScenarioCalculator: src/src/valuation_app/services/calculator.py.       *)
(***************************************************************************)
\* @dataclass PlanState
PlanState(active_customers, deferred_revenue) ==
  [active_customers |-> active_customers, deferred_revenue |-> deferred_revenue]

\* run, line 62: the dict comprehension keyed by plan.name.  Plans that carry
\* the same name yield one entry, built from the last of them.
PlanStatesOf(plans) ==
  [name \in {plans[i].name : i \in DOMAIN plans} |->
     LET last == CHOOSE i \in DOMAIN plans :
                   /\ plans[i].name = name
                   /\ \A j \in DOMAIN plans : plans[j].name = name => j <= i
     IN  PlanState(plans[last].initial_customers,
                   [q \in 1..plans[last].revenue_deferral_months |-> Zero])]

\* deque.popleft(): the element taken and the deque left.
PopLeft(queue) == [value |-> Head(queue), rest |-> Tail(queue)]

\* _compute_revenue, lines 277-281: the deferral of what the plan billed.
\* With a deferral the new amount joins the queue at the right and the
\* oldest entry leaves it at the left, recognized in part.
PlanRecognition(plan, state, active_customers, gross_revenue, popped) ==
  LET deferred == plan.revenue_deferral_months > 0
  IN  [state |-> PlanState(active_customers,
                           IF deferred THEN popped.rest
                                       ELSE state.deferred_revenue),
       gross_revenue |-> gross_revenue,
       recognized |->
         IF deferred
           THEN RDiv(popped.value, R(IMax(1, plan.revenue_deferral_months)))
           ELSE gross_revenue,
       popped |-> IF deferred THEN popped.value ELSE gross_revenue]

\* _compute_revenue, lines 268-276: what the plan bills in the month.
PlanBilling(month_index, plan, state, new_customers, active_customers, churned_customers, arpa, base_revenue) ==
  LET expansion_revenue ==
        RMul(base_revenue, value_for(plan.expansion_rate, month_index))
      contraction_revenue ==
        RMul(base_revenue, value_for(plan.contraction_rate, month_index))
      services_revenue ==
        RMul(RMul(plan.services_attach_rate, new_customers), plan.services_asp)
      transactional_revenue ==
        RMul(value_for(plan.transactional_volume, month_index),
             plan.transactional_fee)
  IN  [gross_revenue |->
         RAdd(RSub(RAdd(base_revenue, expansion_revenue), contraction_revenue),
              RAdd(services_revenue, transactional_revenue)),
       discount |->
         RMul(base_revenue, value_for(plan.discount_rate, month_index)),
       churn |-> RMul(churned_customers, arpa),
       expansion |-> expansion_revenue]

\* _compute_revenue, lines 256-267: the customers and the price of the month.
PlanCustomers(month_index, plan, state, new_customers, churned_customers) ==
  [new_customers |-> new_customers,
   churned_customers |-> churned_customers,
   active_customers |->
     RMax(Zero, RSub(RAdd(state.active_customers, new_customers),
                     churned_customers)),
   arpa |->
     RMul(RMul(plan.initial_arpa,
               RPow(RAdd(One, value_for(plan.arpa_growth_rate, month_index)),
                    month_index + 1)),
          factor(plan.seasonal_pattern, month_index))]

\* The plan's pass as one record: the billing of the month with its
\* recognition and the state left.
Recognized(plan, state, customers, billing) ==
  billing @@
  PlanRecognition(plan, state, customers.active_customers,
                  billing.gross_revenue,
                  PopLeft(Append(state.deferred_revenue, billing.gross_revenue)))

Billed(month_index, plan, state, customers, base_revenue) ==
  Recognized(plan, state, customers,
             PlanBilling(month_index, plan, state, customers.new_customers,
                         customers.active_customers,
                         customers.churned_customers, customers.arpa,
                         base_revenue))

Priced(month_index, plan, state, customers) ==
  Billed(month_index, plan, state, customers,
         RMul(customers.active_customers, customers.arpa))

\* _compute_revenue, lines 256-281: one plan's pass of the loop body on the
\* state stored under its name.
RevenuePlanStep(month_index, plan, state) ==
  Priced(month_index, plan, state,
         PlanCustomers(month_index, plan, state,
           RMax(Zero, value_for(plan.new_customers, month_index)),
           RMul(state.active_customers,
                value_for(plan.churn_rate, month_index))))

\* _compute_revenue, lines 283-287: the plan's pass added to the totals of
\* the month.
Accumulated(acc, plan, step) ==
  [plan_states |-> [acc.plan_states EXCEPT ![plan.name] = step.state],
   total_gross |-> RAdd(acc.total_gross, step.gross_revenue),
   total_net |-> RAdd(acc.total_net, RSub(step.recognized, step.discount)),
   total_churn |-> RAdd(acc.total_churn, step.churn),
   total_expansion |-> RAdd(acc.total_expansion, step.expansion),
   arr |-> RAdd(acc.arr, RMul(step.recognized, R(12))),
   per_plan |-> Append(acc.per_plan,
      [gross_revenue |-> step.gross_revenue,
       popped |-> step.popped,
       recognized |-> step.recognized,
       queue_len |-> Len(step.state.deferred_revenue)])]

\* _compute_revenue, lines 250-255: the loop over the plans in declaration
\* order, from plan i on.  acc carries the running totals, the plan states,
\* and per plan what the pass billed, popped and recognized.
RECURSIVE RevenueLoop(_, _, _, _)
RevenueLoop(month_index, plans, i, acc) ==
  IF i > Len(plans) THEN acc
  ELSE RevenueLoop(month_index, plans, i + 1,
         Accumulated(acc, plans[i],
           RevenuePlanStep(month_index, plans[i],
                           acc.plan_states[plans[i].name])))

\* _compute_revenue: the RevenueSummary, the mutated plan states and the
\* per-plan locals of the month.
_compute_revenue(month_index, revenue_model, plan_states) ==
  LET acc == RevenueLoop(month_index, revenue_model.plans, 1,
               [plan_states |-> plan_states, total_gross |-> Zero,
                total_net |-> Zero, total_churn |-> Zero,
                total_expansion |-> Zero, arr |-> Zero, per_plan |-> <<>>])
  IN  [plan_states |-> acc.plan_states,
       per_plan |-> acc.per_plan,
       revenue_summary |->
         [total_gross |-> RAdd(acc.total_gross,
             value_for(revenue_model.professional_services_revenue, month_index)),
          total_net |-> RAdd(acc.total_net,
             value_for(revenue_model.other_recurring_revenue, month_index)),
          total_churn |-> acc.total_churn,
          total_expansion |-> acc.total_expansion,
          arr |-> acc.arr]]

\* @dataclass HeadcountState, with the dict key it is stored under.
HeadcountState(position, fte, current_salary) ==
  [role |-> position.role, position |-> position, fte |-> fte,
   current_salary |-> current_salary]

\* run, line 63: the dict comprehension keyed by pos.role, as the sequence of
\* its entries in insertion order (a repeated role keeps its first place and
\* takes its last value).
RECURSIVE HeadcountStatesOf(_, _)
HeadcountStatesOf(positions, states) ==
  IF positions = <<>> THEN states
  ELSE LET pos == Head(positions)
           new == HeadcountState(pos, pos.current_fte, pos.base_salary)
       IN  HeadcountStatesOf(Tail(positions),
             IF \E k \in DOMAIN states : states[k].role = pos.role
               THEN [k \in DOMAIN states |->
                       IF states[k].role = pos.role THEN new ELSE states[k]]
               ELSE Append(states, new))

\* _compute_headcount, lines 309-318: the hires of the month, in order.
RECURSIVE HireLoop(_, _, _)
HireLoop(hires, positions, states) ==
  IF hires = <<>> THEN states
  ELSE LET hire == Head(hires)
           known == \E k \in DOMAIN states : states[k].role = hire.role
           matches == SelectSeq(positions, LAMBDA pos : pos.role = hire.role)
           withRole ==
             IF known THEN states
             ELSE Append(states,
                    HeadcountState(matches[1], Zero, matches[1].base_salary))
           hired ==
             [k \in DOMAIN withRole |->
                IF withRole[k].role = hire.role
                  THEN [withRole[k] EXCEPT
                          !.fte = RAdd(@, hire.quantity),
                          !.current_salary =
                             IF Truthy(hire.salary_override)
                               THEN hire.salary_override ELSE @]
                  ELSE withRole[k]]
       IN  IF ~known /\ matches = <<>>
             THEN HireLoop(Tail(hires), positions, states)
             ELSE HireLoop(Tail(hires), positions, hired)

\* _compute_headcount, lines 336-341: one state's cost added to its area's
\* totals; a new area is appended in the order it is first met.
AddToArea(areas, area, cost) ==
  IF \E k \in DOMAIN areas : areas[k].area = area
    THEN [k \in DOMAIN areas |->
            IF areas[k].area = area
              THEN [area |-> area,
                    salaries |-> RAdd(areas[k].salaries, cost.salaries),
                    benefits |-> RAdd(areas[k].benefits, cost.benefits),
                    subscriptions |-> RAdd(areas[k].subscriptions,
                                           cost.subscriptions),
                    total |-> RAdd(areas[k].total, cost.total),
                    fte |-> RAdd(areas[k].fte, cost.fte)]
              ELSE areas[k]]
    ELSE Append(areas, [area |-> area, salaries |-> cost.salaries,
                        benefits |-> cost.benefits,
                        subscriptions |-> cost.subscriptions,
                        total |-> cost.total, fte |-> cost.fte])

RECURSIVE SubscriptionSum(_, _)
SubscriptionSum(subscriptions, month_index) ==
  IF subscriptions = <<>> THEN Zero
  ELSE RAdd(RMul(Head(subscriptions).monthly_cost,
                 RAdd(One, factor_for_month(Head(subscriptions).price_adjustment,
                                            month_index))),
            SubscriptionSum(Tail(subscriptions), month_index))

\* _compute_headcount, lines 324-341: the loop over the states from state k on.
RECURSIVE PayrollLoop(_, _, _, _)
PayrollLoop(month_index, attrition_rate, k, acc) ==
  IF k > Len(acc.states) THEN acc
  ELSE LET state == acc.states[k]
           fte == RMul(state.fte, RSub(One, attrition_rate))
           monthly_salary == RDiv(state.current_salary, R(12))
           salary_cost == RMul(fte, monthly_salary)
           benefits == RAdd(RMul(salary_cost, state.position.benefits_pct),
                            RMul(fte, state.position.benefits_fixed))
           bonus == RMul(salary_cost, state.position.bonus_pct)
           payroll_taxes == RMul(salary_cost, state.position.payroll_taxes_pct)
           subs_cost == RMul(SubscriptionSum(state.position.subscriptions,
                                             month_index), fte)
           total == RAdd(RAdd(RAdd(RAdd(salary_cost, benefits), bonus),
                              payroll_taxes), subs_cost)
       IN  IF RLe(state.fte, Zero)
             THEN PayrollLoop(month_index, attrition_rate, k + 1, acc)
             ELSE PayrollLoop(month_index, attrition_rate, k + 1,
                    [states |-> [acc.states EXCEPT ![k].fte = fte],
                     payroll_total |-> RAdd(acc.payroll_total, total),
                     areas |-> AddToArea(acc.areas, state.position.area,
                        [salaries |-> salary_cost,
                         benefits |-> RAdd(RAdd(benefits, bonus), payroll_taxes),
                         subscriptions |-> subs_cost,
                         total |-> total, fte |-> fte])])

\* _compute_headcount that applies every hire in every month.
_compute_headcountHiresEveryMonth(month_index, headcount_model, headcount_states) ==
  LET hired == HireLoop(headcount_model.hires, headcount_model.positions,
                        headcount_states)
      acc == PayrollLoop(month_index,
                         value_for(headcount_model.attrition_pct, month_index),
                         1, [states |-> hired, payroll_total |-> Zero,
                             areas |-> <<>>])
  IN  [headcount_states |-> acc.states,
       headcount_breakdown |-> acc.areas,
       payroll_total |-> acc.payroll_total]

\* _compute_headcount: the breakdown, payroll_total and the mutated states.
_compute_headcount(month_index, headcount_model, headcount_states) ==
  LET hires == SelectSeq(headcount_model.hires,
                         LAMBDA hire : hire.month_index = month_index)
      hired == HireLoop(hires, headcount_model.positions, headcount_states)
      acc == PayrollLoop(month_index,
                         value_for(headcount_model.attrition_pct, month_index),
                         1, [states |-> hired, payroll_total |-> Zero,
                             areas |-> <<>>])
  IN  [headcount_states |-> acc.states,
       headcount_breakdown |-> acc.areas,
       payroll_total |-> acc.payroll_total]

\* Python's floor division a // b for b > 0.
FloorDiv(a, b) == a \div b

\* _compute_costs, lines 365-376: one CostItem's amount.
CostItemAmount(item, month_index, revenue_summary) ==
  LET driver_value == IF item.driver = "revenue"
                        THEN revenue_summary.total_net
                        ELSE revenue_summary.total_gross
      base_amount == IF item.nature = "variable"
                       THEN RMul(driver_value, item.variable_rate)
                       ELSE item.base_amount
  IN  RMul(RMul(base_amount, value_for(item.schedule, month_index)),
           RAdd(One, factor_for_month(item.price_adjustment, month_index)))

\* The contract amount with a first escalation in the very month it starts.
ContractAmountEscalatedAtStart(contract, month_index) ==
  LET escalations ==
        1 + IMax(0, FloorDiv(month_index - contract.start_month,
                             contract.escalation_frequency_months))
  IN  RMul(contract.base_amount,
           RPow(RAdd(One, contract.escalation_pct), escalations))

\* _compute_costs, lines 377-386: one SupplierContract's amount from its
\* start_month on.
ContractAmount(contract, month_index) ==
  LET escalations ==
        IMax(0, FloorDiv(month_index - contract.start_month,
                         contract.escalation_frequency_months))
  IN  RMul(contract.base_amount,
           RPow(RAdd(One, contract.escalation_pct), escalations))

\* breakdown[center] += amount on the insertion-ordered dict.
AddToCenter(breakdown, center, amount) ==
  IF \E k \in DOMAIN breakdown : breakdown[k].cost_center = center
    THEN [k \in DOMAIN breakdown |->
            IF breakdown[k].cost_center = center
              THEN [cost_center |-> center,
                    amount |-> RAdd(breakdown[k].amount, amount)]
              ELSE breakdown[k]]
    ELSE Append(breakdown, [cost_center |-> center, amount |-> amount])

\* _compute_costs: entries is the sequence of cost items followed by the
\* supplier contracts that have started, each with its amount.
RECURSIVE CostLoop(_, _)
CostLoop(entries, acc) ==
  IF entries = <<>> THEN acc
  ELSE LET e == Head(entries)
       IN  CostLoop(Tail(entries),
             [breakdown |-> AddToCenter(acc.breakdown, e.cost_center, e.amount),
              cogs_total |-> IF e.allocation = "cogs"
                               THEN RAdd(acc.cogs_total, e.amount)
                               ELSE acc.cogs_total,
              opex_total |-> IF e.allocation = "cogs"
                               THEN acc.opex_total
                               ELSE RAdd(acc.opex_total, e.amount)])

_compute_costs(month_index, cost_model, revenue_summary) ==
  LET items == [k \in DOMAIN cost_model.items |->
                  [cost_center |-> cost_model.items[k].cost_center,
                   allocation |-> cost_model.items[k].allocation,
                   amount |-> CostItemAmount(cost_model.items[k], month_index,
                                             revenue_summary)]]
      started == SelectSeq(cost_model.supplier_contracts,
                           LAMBDA c : ~(month_index < c.start_month))
      contracts == [k \in DOMAIN started |->
                      [cost_center |-> started[k].cost_center,
                       allocation |-> started[k].allocation,
                       amount |-> ContractAmount(started[k], month_index)]]
  IN  CostLoop(items \o contracts,
               [breakdown |-> <<>>, cogs_total |-> Zero, opex_total |-> Zero])

\* _compute_revenue_taxes, lines 398-408
TaxAmount(tax, revenue_summary, payroll_total) ==
  LET base == IF tax.base = "gross_revenue" THEN revenue_summary.total_gross
              ELSE IF tax.base = "net_revenue" THEN revenue_summary.total_net
              ELSE IF tax.base = "payroll" THEN payroll_total
              ELSE revenue_summary.total_net
  IN  RMul(base, tax.rate)

\* _compute_revenue_taxes that adds the components on every base.
_compute_revenue_taxesOnEveryBase(revenue_summary, tax_model, payroll_total) ==
  LET breakdown == [k \in DOMAIN tax_model.taxes |->
                      [name |-> tax_model.taxes[k].name,
                       base |-> tax_model.taxes[k].base,
                       amount |-> TaxAmount(tax_model.taxes[k], revenue_summary,
                                            payroll_total)]]
  IN  [tax_amount |-> RSum([k \in DOMAIN breakdown |-> breakdown[k].amount]),
       breakdown |-> breakdown]

_compute_revenue_taxes(revenue_summary, tax_model, payroll_total) ==
  LET breakdown == [k \in DOMAIN tax_model.taxes |->
                      [name |-> tax_model.taxes[k].name,
                       base |-> tax_model.taxes[k].base,
                       amount |-> TaxAmount(tax_model.taxes[k], revenue_summary,
                                            payroll_total)]]
      onRevenue == SelectSeq(breakdown,
                     LAMBDA t : t.base \in {"gross_revenue", "net_revenue"})
  IN  [tax_amount |-> RSum([k \in DOMAIN onRevenue |-> onRevenue[k].amount]),
       breakdown |-> breakdown]

\* _compute_debt, line 475: a state is kept while outstanding > 1e-6.
DebtEpsilon == Frac(1, 1000000)

\* The charge of one track without the floor at zero.
MonthlyDepUnfloored(track) ==
  RDiv(RSub(track.amount, track.salvage), R(track.remaining))

\* _compute_depreciation, line 428: the charge of one track this month.
MonthlyDep(track) ==
  RMax(Zero, RDiv(RSub(track.amount, track.salvage), R(track.remaining)))

\* _compute_depreciation, lines 419-434.  A track is the tuple
\* (remaining_months, amount, salvage).
_compute_depreciation(month_index, capex_schedule, depreciation_tracks, fixed_assets_in, accumulated_depreciation_in) ==
  LET due == SelectSeq(capex_schedule, LAMBDA item : item.month_index = month_index)
      tracks == depreciation_tracks \o
                [k \in DOMAIN due |->
                   [remaining |-> due[k].useful_life_months,
                    amount |-> due[k].amount,
                    salvage |-> due[k].salvage_value]]
      live == SelectSeq(tracks, LAMBDA t : ~(t.remaining <= 0))
      depreciation == RSum([k \in DOMAIN live |-> MonthlyDep(live[k])])
  IN  [depreciation |-> depreciation,
       accumulated_depreciation |-> RAdd(accumulated_depreciation_in, depreciation),
       fixed_assets |-> RAdd(fixed_assets_in,
                             RSum([k \in DOMAIN due |-> due[k].amount])),
       depreciation_tracks |->
         [k \in DOMAIN live |-> [live[k] EXCEPT !.remaining = @ - 1]]]

\* A DebtState that starts without its grace period.
DebtStateWithoutGrace(instrument) ==
  [name |-> instrument.name,
   outstanding |-> instrument.amount,
   interest_rate |-> instrument.interest_rate_annual,
   term_months |-> instrument.term_months,
   remaining_term |-> instrument.term_months,
   grace_months |-> 0]

\* @dataclass DebtState built for an instrument, lines 448-455.
DebtState(instrument) ==
  [name |-> instrument.name,
   outstanding |-> instrument.amount,
   interest_rate |-> instrument.interest_rate_annual,
   term_months |-> instrument.term_months,
   remaining_term |-> instrument.term_months,
   grace_months |-> instrument.grace_period_months]

\* The principal spread over the whole term instead of the term remaining.
PrincipalPaymentOverTerm(state) ==
  RMin(IF state.term_months > 0
         THEN RDiv(state.outstanding, R(state.term_months))
         ELSE state.outstanding,
       state.outstanding)

\* _compute_debt, lines 467-471: the principal repaid by one state.
PrincipalPayment(state) ==
  RMin(IF state.remaining_term > 0
         THEN RDiv(state.outstanding, R(state.remaining_term))
         ELSE state.outstanding,
       state.outstanding)

\* _compute_debt, lines 458-476: the loop over the states.
RECURSIVE DebtLoop(_, _)
DebtLoop(states, acc) ==
  IF states = <<>> THEN acc
  ELSE LET state == Head(states)
           interest == RMul(state.outstanding,
                            RDiv(state.interest_rate, R(12)))
           principal_payment == PrincipalPayment(state)
           paid == [state EXCEPT
                      !.outstanding = RSub(@, principal_payment),
                      !.remaining_term = IMax(0, @ - 1)]
       IN  IF RLe(state.outstanding, Zero)
             THEN DebtLoop(Tail(states), acc)
           ELSE IF state.grace_months > 0
             THEN DebtLoop(Tail(states),
                    [acc EXCEPT
                       !.interest_expense = RAdd(@, interest),
                       !.debt_states =
                          Append(@, [state EXCEPT !.grace_months = @ - 1])])
           ELSE DebtLoop(Tail(states),
                    [interest_expense |-> RAdd(acc.interest_expense, interest),
                     principal_paid |-> RAdd(acc.principal_paid, principal_payment),
                     debt_states |->
                        IF RLt(DebtEpsilon, paid.outstanding)
                          THEN Append(acc.debt_states, paid)
                          ELSE acc.debt_states])

\* _compute_debt returning no principal paid, whatever the states repaid.
_compute_debtPrincipalUnreported(month_index, funding_model, debt_states) ==
  LET drawn == SelectSeq(funding_model.debt,
                         LAMBDA instrument : instrument.month_index = month_index)
  IN  [DebtLoop(debt_states \o [k \in DOMAIN drawn |-> DebtState(drawn[k])],
                [interest_expense |-> Zero, principal_paid |-> Zero,
                 debt_states |-> <<>>])
         EXCEPT !.principal_paid = Zero]

\* _compute_debt, lines 443-479.
_compute_debt(month_index, funding_model, debt_states) ==
  LET drawn == SelectSeq(funding_model.debt,
                         LAMBDA instrument : instrument.month_index = month_index)
  IN  DebtLoop(debt_states \o [k \in DOMAIN drawn |-> DebtState(drawn[k])],
               [interest_expense |-> Zero, principal_paid |-> Zero,
                debt_states |-> <<>>])

\* _compute_working_capital with the targets taken as the changes, whatever
\* the balances carried.
_compute_working_capitalFromZero(wc_model, net_revenue, cost_base, revenue_summary, previous_ar, previous_ap, previous_inventory) ==
  LET change_ar == RMul(net_revenue, RDiv(wc_model.dso, R(30)))
      change_ap == RMul(cost_base, RDiv(wc_model.dpo, R(30)))
      change_inventory == RMul(revenue_summary.total_gross,
                               RDiv(wc_model.dio, R(30)))
  IN  [change_ar |-> change_ar, change_ap |-> change_ap,
       change_inventory |-> change_inventory,
       total_change |-> RAdd(RSub(change_ar, change_ap), change_inventory)]

\* _compute_working_capital, lines 491-503.
_compute_working_capital(wc_model, net_revenue, cost_base, revenue_summary, previous_ar, previous_ap, previous_inventory) ==
  LET target_ar == RMul(net_revenue, RDiv(wc_model.dso, R(30)))
      target_ap == RMul(cost_base, RDiv(wc_model.dpo, R(30)))
      target_inventory == RMul(revenue_summary.total_gross,
                               RDiv(wc_model.dio, R(30)))
      change_ar == RSub(target_ar, previous_ar)
      change_ap == RSub(target_ap, previous_ap)
      change_inventory == RSub(target_inventory, previous_inventory)
  IN  [change_ar |-> change_ar, change_ap |-> change_ap,
       change_inventory |-> change_inventory,
       total_change |-> RAdd(RSub(change_ar, change_ap), change_inventory)]

\* sum(x.amount for x in items if x.month_index == month_index)
AmountsAt(items, month_index) ==
  LET due == SelectSeq(items, LAMBDA x : x.month_index = month_index)
  IN  RSum([k \in DOMAIN due |-> due[k].amount])

\* _funding_inflows, lines 505-508.
_funding_inflows(month_index, funding_model) ==
  [equity |-> AmountsAt(funding_model.equity_rounds, month_index),
   debt |-> AmountsAt(funding_model.debt, month_index)]

\* _accumulate_annual, lines 518-539: the month's lines added to the year's
\* bucket (a defaultdict: a year first met starts from zeros).
AnnualZero ==
  [gross_revenue |-> Zero, revenue_taxes |-> Zero, net_revenue |-> Zero,
   cogs |-> Zero, operating_expenses |-> Zero, ebitda |-> Zero,
   depreciation |-> Zero, amortization |-> Zero, ebit |-> Zero,
   interest |-> Zero, ebt |-> Zero, income_tax |-> Zero, net_income |-> Zero]

AnnualCashZero ==
  [operating |-> Zero, investing |-> Zero, financing |-> Zero,
   fcff |-> Zero, fcfe |-> Zero]

\* _accumulate_annual with a bucket that is never found again: each month
\* starts its year afresh.
BucketFresh(accumulators, year, zero) == zero

Bucket(accumulators, year, zero) ==
  IF year \in DOMAIN accumulators THEN accumulators[year] ELSE zero

Put(accumulators, year, bucket) ==
  [y \in DOMAIN accumulators \cup {year} |->
     IF y = year THEN bucket ELSE accumulators[y]]

_accumulate_annual(period_start, income_statement, cash_flow, accumulators, cash_accumulators) ==
  LET year == period_start.year
      acc == Bucket(accumulators, year, AnnualZero)
      cash_acc == Bucket(cash_accumulators, year, AnnualCashZero)
  IN  [accumulators |-> Put(accumulators, year,
         [k \in DOMAIN AnnualZero |-> RAdd(acc[k], income_statement[k])]),
       cash_accumulators |-> Put(cash_accumulators, year,
         [operating |-> RAdd(cash_acc.operating, cash_flow.operating_cash_flow),
          investing |-> RAdd(cash_acc.investing, cash_flow.investing_cash_flow),
          financing |-> RAdd(cash_acc.financing, cash_flow.financing_cash_flow),
          fcff |-> RAdd(cash_acc.fcff, cash_flow.fcff),
          fcfe |-> RAdd(cash_acc.fcfe, cash_flow.fcfe)])]

\* sorted(accumulators.keys())
RECURSIVE SortedYears(_)
SortedYears(years) ==
  IF years = {} THEN <<>>
  ELSE LET least == CHOOSE y \in years : \A z \in years : y <= z
       IN  <<least>> \o SortedYears(years \ {least})

\* plan_states.values(): the states of a dict, as a sequence.
RECURSIVE ValuesOf(_)
ValuesOf(dict) ==
  IF DOMAIN dict = {} THEN <<>>
  ELSE LET key == CHOOSE k \in DOMAIN dict : TRUE
       IN  <<dict[key]>> \o ValuesOf([k \in DOMAIN dict \ {key} |-> dict[k]])

\* _build_annual_summaries, lines 546-576.
_build_annual_summaries(accumulators, cash_accumulators) ==
  LET years == SortedYears(DOMAIN accumulators)
  IN  [k \in DOMAIN years |->
         LET acc == accumulators[years[k]]
             cash_acc == cash_accumulators[years[k]]
         IN  [year |-> years[k],
              income_statement |->
                [gross_revenue |-> acc.gross_revenue,
                 revenue_taxes |-> acc.revenue_taxes,
                 net_revenue |-> acc.net_revenue,
                 cogs |-> acc.cogs,
                 gross_margin |-> RSub(acc.net_revenue, acc.cogs),
                 operating_expenses |-> acc.operating_expenses,
                 ebitda |-> acc.ebitda,
                 depreciation |-> acc.depreciation,
                 amortization |-> acc.amortization,
                 ebit |-> acc.ebit,
                 interest |-> acc.interest,
                 ebt |-> acc.ebt,
                 income_tax |-> acc.income_tax,
                 net_income |-> acc.net_income],
              cash_flow |->
                [operating_cash_flow |-> cash_acc.operating,
                 investing_cash_flow |-> cash_acc.investing,
                 financing_cash_flow |-> cash_acc.financing,
                 net_change_in_cash |->
                   RAdd(RAdd(cash_acc.operating, cash_acc.investing),
                        cash_acc.financing),
                 ending_cash |-> Zero,
                 fcff |-> cash_acc.fcff,
                 fcfe |-> cash_acc.fcfe]]]

(***************************************************************************)
(* The valuation layer.                                                    *)
(***************************************************************************)
\* Python's a / b on floats.
PyDiv(a, b) == IF IsZero(b) THEN Raises("ZeroDivisionError") ELSE Returns(RDiv(a, b))

\* _compute_terminal_value, lines 615-628.
_compute_terminal_value(valuation_settings, annual_summaries) ==
  IF annual_summaries = <<>> THEN Returns(Zero)
  ELSE LET last == annual_summaries[Len(annual_summaries)]
           fcff == RDiv(last.cash_flow.fcff, R(12))
           metric_value ==
             IF valuation_settings.terminal_multiple_metric = "ebitda"
               THEN last.income_statement.ebitda
             ELSE IF valuation_settings.terminal_multiple_metric \in {"revenue", "arr"}
               THEN last.income_statement.net_revenue
             ELSE last.income_statement.ebitda
       IN  IF valuation_settings.terminal_method = "perpetuity"
             THEN PyDiv(RMul(fcff, RAdd(One, valuation_settings.perpetual_growth_rate)),
                        RSub(valuation_settings.wacc,
                             valuation_settings.perpetual_growth_rate))
             ELSE Returns(RMul(metric_value, valuation_settings.terminal_multiple))

\* _compute_multiples, lines 635-647: the metrics dict in insertion order.
_compute_multiples(valuation_settings, annual_summaries) ==
  IF annual_summaries = <<>> THEN <<>>
  ELSE LET last == annual_summaries[Len(annual_summaries)]
           metrics == <<[metric |-> "ebitda", value |-> last.income_statement.ebitda],
                        [metric |-> "revenue", value |-> last.income_statement.net_revenue],
                        [metric |-> "arr", value |-> last.income_statement.net_revenue]>>
           multiple(metric) ==
             IF metric = valuation_settings.terminal_multiple_metric
               THEN valuation_settings.terminal_multiple
             ELSE IF Truthy(valuation_settings.exit_year_multiple)
               THEN valuation_settings.exit_year_multiple
             ELSE valuation_settings.terminal_multiple
       IN  [k \in DOMAIN metrics |->
              [metric |-> metrics[k].metric,
               multiple |-> multiple(metrics[k].metric),
               value |-> RMul(metrics[k].value, multiple(metrics[k].metric))]]

\* _compute_vc_method, line 663: max(required_ownership, 1e-6).
OwnershipFloor == Frac(1, 1000000)

\* _compute_vc_method, line 667: the ownership reported.
OwnershipReported(required_ownership) == RMin(One, required_ownership)

\* _compute_vc_method, lines 655-670.
_compute_vc_method(valuation_settings, funding_model, annual_summaries) ==
  IF annual_summaries = <<>>
    THEN Returns([exit_value |-> Zero, ownership_required |-> Zero,
                  post_money |-> Zero, pre_money |-> Zero])
  ELSE LET last == annual_summaries[Len(annual_summaries)]
           exit_metric == last.income_statement.net_revenue
           exit_value == RMul(exit_metric, valuation_settings.exit_year_multiple)
           discounted_exit ==
             PyDiv(exit_value,
                   RPow(RAdd(One, valuation_settings.discount_rate_vc),
                        valuation_settings.target_exit_year))
           investment ==
             RSum([k \in DOMAIN funding_model.equity_rounds |->
                     funding_model.equity_rounds[k].amount])
           required_ownership ==
             IF Truthy(discounted_exit.value)
               THEN PyDiv(investment,
                          RMul(discounted_exit.value,
                               valuation_settings.probability_of_success))
               ELSE Returns(Zero)
           post_money ==
             IF Truthy(required_ownership.value)
               THEN RDiv(investment, RMax(required_ownership.value, OwnershipFloor))
               ELSE exit_value
       IN  IF discounted_exit.error # "" THEN discounted_exit
           ELSE IF required_ownership.error # "" THEN required_ownership
           ELSE Returns([exit_value |-> exit_value,
                         ownership_required |->
                           OwnershipReported(required_ownership.value),
                         post_money |-> post_money,
                         pre_money |-> RSub(post_money, investment)])

\* _compute_scorecard, lines 673-679; None is the empty sequence.  The
\* valuation, base_equity * score, needs the DCF equity value and is left out.
_compute_scorecard(valuation_settings) ==
  IF valuation_settings.scorecard_weights = <<>> THEN Returns(<<>>)
  ELSE LET weights == valuation_settings.scorecard_weights
           total_weight == RSum(weights)
           score == RSum([k \in DOMAIN weights |-> RDiv(weights[k], total_weight)])
       IN  IF IsZero(total_weight) THEN Raises("ZeroDivisionError")
           ELSE Returns(<<[total_score |-> score]>>)

\* _build_valuation, lines 584-608, in the order the source evaluates: the
\* discount factors, the terminal value, its discounting, the last balance
\* sheet, then the multiples, the VC method and the scorecard.  The first
\* step that raises ends it.  Of the DCF only terminal_value is kept.
_build_valuation(monthly_results_in, annual_summaries, scenario_in) ==
  LET valuation_settings == scenario_in.valuation
      n == Len(monthly_results_in)
      terminal_value == _compute_terminal_value(valuation_settings, annual_summaries)
      vc_method == _compute_vc_method(valuation_settings, scenario_in.funding,
                                      annual_summaries)
      scorecard == _compute_scorecard(valuation_settings)
  IN  IF n > 0 /\ IsZero(RAdd(One, valuation_settings.wacc))
        THEN Raises("ZeroDivisionError")
      ELSE IF terminal_value.error # "" THEN terminal_value
      ELSE IF n = 0 THEN Raises("IndexError")
      ELSE IF vc_method.error # "" THEN vc_method
      ELSE IF scorecard.error # "" THEN scorecard
      ELSE Returns([dcf |-> [terminal_value |-> terminal_value.value],
                    multiples |-> _compute_multiples(valuation_settings,
                                                     annual_summaries),
                    vc_method |-> vc_method.value,
                    scorecard |-> scorecard.value])

\* _build_dashboards, lines 687-716, without the "valuation" bundle (the DCF
\* present values).
_build_dashboards(monthly_results_in) ==
  [revenue |->
     [net_revenue |-> [k \in DOMAIN monthly_results_in |->
                         monthly_results_in[k].income_statement.net_revenue],
      ebitda |-> [k \in DOMAIN monthly_results_in |->
                    monthly_results_in[k].income_statement.ebitda]],
   cash |->
     [cash |-> [k \in DOMAIN monthly_results_in |->
                  monthly_results_in[k].balance_sheet.cash],
      fcff |-> [k \in DOMAIN monthly_results_in |->
                  monthly_results_in[k].cash_flow.fcff]],
   unit_economics |->
     [gross_margin_pct |->
        [k \in DOMAIN monthly_results_in |->
           IF Truthy(monthly_results_in[k].income_statement.net_revenue)
             THEN RDiv(monthly_results_in[k].income_statement.gross_margin,
                       monthly_results_in[k].income_statement.net_revenue)
             ELSE Zero],
      burn_rate |->
        [k \in DOMAIN monthly_results_in |->
           RNeg(RAdd(monthly_results_in[k].cash_flow.operating_cash_flow,
                     monthly_results_in[k].cash_flow.investing_cash_flow))]]]

(***************************************************************************)
(* The state of one construction and run.                                  *)
(***************************************************************************)
\* No handler of main.py is serving a request.
NoRequest == [handler |-> ""]

VARIABLES
  pc,                       \* where the caller is: see the actions
  scenario,                 \* the ScenarioInput (before Construct: its data)
  month_index,              \* the loop variable of run
  plan_states, headcount_states, debt_states, depreciation_tracks,
  cash, accounts_receivable, accounts_payable, inventory, fixed_assets,
  accumulated_depreciation, debt_balance, equity,
  monthly_results, annual_accumulators, annual_cash,
  result,                   \* what run returned, once pc = "returned"
  error,                    \* the exception raised, "" if none
  given,                    \* the input as the caller passed it (history)
  outcomes,                 \* what the invocations that ended gave (history)
  invocation,               \* the invocation of run at work: 1 or 2
  suspended,                \* the frame of the other invocation, if there is one
  interleaved,              \* both invocations were inside their loops (history)
  SCENARIOS,                \* main.py:21, the store: entries in insertion order
  request,                  \* the request a handler is serving, NoRequest if none
  response,                 \* the answer to the last request, <<>> while one is served
  posts                     \* the scenario last posted under each id (history)

running ==
  <<plan_states, headcount_states, debt_states, depreciation_tracks,
    cash, accounts_receivable, accounts_payable, inventory, fixed_assets,
    accumulated_depreciation, debt_balance, equity,
    monthly_results, annual_accumulators, annual_cash>>

\* What lies beyond the invocation at work.
beyond ==
  <<given, outcomes, invocation, suspended, interleaved,
    SCENARIOS, request, response, posts>>

vars == <<pc, scenario, month_index, running, result, error, beyond>>

\* A backstop that lifts cash to the minimum and reports no shortfall.
BackstopUnreported(cash_in, min_cash_balance) ==
  [shortfall |-> Zero, cash |-> RMax(cash_in, min_cash_balance)]

\* run, lines 174-180: cash after the month's net change and the backstop.
\* shortfall = min_cash_balance - cash_balance and cash_balance += shortfall
\* are two float operations, each rounded.
Backstop(cash_in, min_cash_balance) ==
  IF RLt(cash_in, min_cash_balance)
    THEN LET shortfall == Fl(RSub(min_cash_balance, cash_in))
         IN  [shortfall |-> shortfall, cash |-> Fl(RAdd(cash_in, shortfall))]
    ELSE [shortfall |-> Zero, cash |-> cash_in]

\* The loop bound off by one: the body runs once more.
LoopContinuesInclusive(index, months) == index <= months

\* run, line 89: for month_index in range(months) runs its body again.
LoopContinues(index, months) == index < months

\* run, lines 110-148: the income statement of the month from what the
\* evaluators returned.
IncomeStatementOf(rev, head, costs, taxes, dep, debt) ==
  LET revenue_summary == rev.revenue_summary
      states == ValuesOf(rev.plan_states)
      customers == RSum([k \in DOMAIN states |-> states[k].active_customers])
      total_cogs == RAdd(RAdd(costs.cogs_total,
                              RMul(scenario.costs.cogs_per_customer, customers)),
                         RMul(scenario.costs.cogs_variable_pct,
                              revenue_summary.total_net))
      net_revenue == RSub(revenue_summary.total_net, taxes.tax_amount)
      gross_margin == RSub(net_revenue, total_cogs)
      operating_expenses == RAdd(costs.opex_total, head.payroll_total)
      ebitda == RSub(gross_margin, operating_expenses)
      amortization == Zero
      ebit == RSub(RSub(ebitda, dep.depreciation), amortization)
      ebt == RSub(ebit, debt.interest_expense)
      income_tax == RMul(RMax(Zero, ebt), scenario.taxes.effective_income_tax_rate)
  IN  [gross_revenue |-> revenue_summary.total_gross,
       revenue_taxes |-> taxes.tax_amount,
       net_revenue |-> net_revenue, cogs |-> total_cogs,
       gross_margin |-> gross_margin, operating_expenses |-> operating_expenses,
       ebitda |-> ebitda, depreciation |-> dep.depreciation,
       amortization |-> amortization, ebit |-> ebit,
       interest |-> debt.interest_expense, ebt |-> ebt,
       income_tax |-> income_tax, net_income |-> RSub(ebt, income_tax)]

\* run, lines 163-180: the cash-flow statement of the month, the backstop
\* included, with the shortfall it injected.
CashFlowOf(m, income, debt, working_capital_delta) ==
  LET capex_amount == AmountsAt(scenario.capex.items, m)
      operating_cash_flow ==
        RSub(RAdd(RAdd(income.net_income, income.depreciation),
                  income.amortization),
             working_capital_delta.total_change)
      investing_cash_flow == RNeg(capex_amount)
      inflows == _funding_inflows(m, scenario.funding)
      financing_before ==
        RSub(RSub(RAdd(inflows.equity, inflows.debt), debt.principal_paid),
             debt.interest_expense)
      fcff == RSub(RSub(RAdd(RAdd(RMul(income.ebit,
                  RSub(One, scenario.taxes.effective_income_tax_rate)),
                  income.depreciation), income.amortization),
                  working_capital_delta.total_change), capex_amount)
      net_change_in_cash ==
        RAdd(RAdd(operating_cash_flow, investing_cash_flow), financing_before)
      backstop == Backstop(RAdd(cash, net_change_in_cash),
                           scenario.working_capital.min_cash_balance)
  IN  [operating_cash_flow |-> operating_cash_flow,
       investing_cash_flow |-> investing_cash_flow,
       financing_cash_flow |-> RAdd(financing_before, backstop.shortfall),
       net_change_in_cash |-> net_change_in_cash,
       ending_cash |-> backstop.cash,
       fcff |-> fcff,
       fcfe |-> RAdd(RSub(fcff, debt.principal_paid), inflows.debt),
       shortfall |-> backstop.shortfall,
       equity_raise |-> inflows.equity,
       debt_inflows |-> inflows.debt,
       capex_amount |-> capex_amount]

\* run, lines 143-144, 159-161, 180-182 and 201-210: the balance sheet of
\* the month.
BalanceSheetOf(m, income, flows, dep, debt, working_capital_delta) ==
  [cash |-> flows.ending_cash,
   accounts_receivable |->
     RAdd(accounts_receivable, working_capital_delta.change_ar),
   inventory |-> RAdd(inventory, working_capital_delta.change_inventory),
   fixed_assets |-> dep.fixed_assets,
   accumulated_depreciation |-> dep.accumulated_depreciation,
   accounts_payable |->
     RAdd(accounts_payable, working_capital_delta.change_ap),
   debt |-> RSub(RAdd(debt_balance, AmountsAt(scenario.funding.debt, m)),
                 debt.principal_paid),
   equity |-> RAdd(RAdd(equity, flows.shortfall),
                   RAdd(income.net_income, flows.equity_raise))]

\* run, lines 184-236: the MonthlyProjection appended and the running state
\* left by the month.
Assembled(m, period_start, rev, head, costs, taxes, dep, debt, income, working_capital_delta, flows, balance_sheet) ==
  LET cash_flow == [k \in {"operating_cash_flow", "investing_cash_flow",
                           "financing_cash_flow", "net_change_in_cash",
                           "ending_cash", "fcff", "fcfe"} |-> flows[k]]
      annual == _accumulate_annual(period_start, income, cash_flow,
                                   annual_accumulators, annual_cash)
  IN  [plan_states |-> rev.plan_states,
       headcount_states |-> head.headcount_states,
       debt_states |-> debt.debt_states,
       depreciation_tracks |-> dep.depreciation_tracks,
       balance_sheet |-> balance_sheet,
       annual_accumulators |-> annual.accumulators,
       annual_cash |-> annual.cash_accumulators,
       projection |->
         [period_start |-> period_start,
          income_statement |-> income,
          balance_sheet |-> balance_sheet,
          cash_flow |-> cash_flow,
          revenue_summary |-> rev.revenue_summary,
          headcount_breakdown |-> head.headcount_breakdown,
          cost_breakdown |-> costs.breakdown,
          tax_breakdown |-> taxes.breakdown,
          working_capital_delta |-> working_capital_delta,
          \* locals of the month that the projection does not store
          locals |-> [month_index |-> m,
                      per_plan |-> rev.per_plan,
                      payroll_total |-> head.payroll_total,
                      principal_paid |-> debt.principal_paid,
                      shortfall |-> flows.shortfall]]]

WithFlows(m, rev, head, costs, taxes, dep, debt, income, working_capital_delta, flows) ==
  Assembled(m, _add_months(scenario.timeframe.start_date, m),
            rev, head, costs, taxes, dep, debt, income, working_capital_delta,
            flows,
            BalanceSheetOf(m, income, flows, dep, debt, working_capital_delta))

WithWorkingCapital(m, rev, head, costs, taxes, dep, debt, income, working_capital_delta) ==
  WithFlows(m, rev, head, costs, taxes, dep, debt, income,
            working_capital_delta,
            CashFlowOf(m, income, debt, working_capital_delta))

WithIncome(m, rev, head, costs, taxes, dep, debt, income) ==
  WithWorkingCapital(m, rev, head, costs, taxes, dep, debt, income,
    _compute_working_capital(scenario.working_capital, income.net_revenue,
                             RAdd(income.cogs, income.operating_expenses),
                             rev.revenue_summary, accounts_receivable,
                             accounts_payable, inventory))

WithCosts(m, rev, head, costs, taxes, dep, debt) ==
  WithIncome(m, rev, head, costs, taxes, dep, debt,
             IncomeStatementOf(rev, head, costs, taxes, dep, debt))

WithEvaluators(m, rev, head, dep, debt) ==
  WithCosts(m, rev, head,
            _compute_costs(m, scenario.costs, rev.revenue_summary),
            _compute_revenue_taxes(rev.revenue_summary, scenario.taxes,
                                   head.payroll_total),
            dep, debt)

\* run, lines 90-236: the body of the loop for one month, as the values of
\* the running state after it and the MonthlyProjection appended.  Each
\* stage hands what it computed to the next, in the order of the source.
MonthBody(m) ==
  WithEvaluators(m,
    _compute_revenue(m, scenario.revenue, plan_states),
    _compute_headcount(m, scenario.headcount, headcount_states),
    _compute_depreciation(m, scenario.capex.items, depreciation_tracks,
                          fixed_assets, accumulated_depreciation),
    _compute_debt(m, scenario.funding, debt_states))

(***************************************************************************)
(* The inputs explored.  Bounds of the exploration:                        *)
(***************************************************************************)
MaxMonths == 4
MaxDeferral == 2
MaxLife == 3
MaxTerm == 3

Sched(v) == [default |-> v, adjustments |-> <<>>]
FlatPattern == [k \in 1..12 |-> One]
NoAdjustment == [custom_monthly_rate |-> Zero]
Date(y, m, d) == [year |-> y, month |-> m, day |-> d]
StartDates == {Date(2024, 1, 31), Date(2024, 11, 15)}

Timeframe(start, months) == [start_date |-> start, months |-> months]

Plan(name, customers, new, churn, discount, deferral) ==
  [name |-> name, initial_customers |-> customers, initial_arpa |-> R(100),
   new_customers |-> Sched(new), churn_rate |-> Sched(churn),
   expansion_rate |-> Sched(Zero), contraction_rate |-> Sched(Zero),
   discount_rate |-> Sched(discount), arpa_growth_rate |-> Sched(Zero),
   seasonal_pattern |-> FlatPattern, revenue_deferral_months |-> deferral,
   services_attach_rate |-> Zero, services_asp |-> Zero,
   transactional_volume |-> Sched(Zero), transactional_fee |-> Zero]

\* A plan that uses every term of the revenue arithmetic.
RichPlan ==
  [Plan("a", R(8), R(2), Frac(1, 2), Frac(1, 4), 1) EXCEPT
     !.expansion_rate = Sched(Frac(1, 2)),
     !.contraction_rate = Sched(Frac(1, 4)),
     !.arpa_growth_rate = [default |-> Frac(1, 2), adjustments |-> (1 :> Zero)],
     !.seasonal_pattern = [k \in 1..12 |-> IF k = 2 THEN R(2) ELSE One],
     !.services_attach_rate = Frac(1, 2), !.services_asp = R(40),
     !.transactional_volume = Sched(R(3)), !.transactional_fee = R(5)]

Position(role, area, fte) ==
  [role |-> role, area |-> area, current_fte |-> fte, base_salary |-> R(120),
   benefits_pct |-> Frac(1, 4), benefits_fixed |-> R(1),
   bonus_pct |-> Frac(1, 2), payroll_taxes_pct |-> Frac(1, 4),
   subscriptions |-> <<[monthly_cost |-> R(2),
                        price_adjustment |-> [custom_monthly_rate |-> Frac(1, 2)]]>>]

Hire(role, month, quantity, salary_override) ==
  [role |-> role, month_index |-> month, quantity |-> quantity,
   salary_override |-> salary_override]

CostItem(nature, allocation, center, base_amount, variable_rate, driver) ==
  [nature |-> nature, allocation |-> allocation, cost_center |-> center,
   base_amount |-> base_amount, variable_rate |-> variable_rate,
   driver |-> driver, price_adjustment |-> NoAdjustment,
   schedule |-> Sched(One)]

Contract(start, base_amount, pct, frequency, allocation) ==
  [start_month |-> start, base_amount |-> base_amount, escalation_pct |-> pct,
   escalation_frequency_months |-> frequency, allocation |-> allocation,
   cost_center |-> "other"]

Tax(name, base, rate) == [name |-> name, base |-> base, rate |-> rate]

Capex(month, amount, life, salvage) ==
  [month_index |-> month, amount |-> amount, useful_life_months |-> life,
   salvage_value |-> salvage]

Round(month, amount) == [month_index |-> month, amount |-> amount]

Debt(name, month, amount, rate, term, grace) ==
  [name |-> name, month_index |-> month, amount |-> amount,
   interest_rate_annual |-> rate, term_months |-> term,
   grace_period_months |-> grace]

Valuation(wacc, growth, method, exit_multiple, probability, weights) ==
  [wacc |-> wacc, perpetual_growth_rate |-> growth, terminal_method |-> method,
   terminal_multiple |-> R(4), terminal_multiple_metric |-> "ebitda",
   exit_year_multiple |-> exit_multiple, target_exit_year |-> 2,
   discount_rate_vc |-> Frac(1, 4), probability_of_success |-> probability,
   scorecard_weights |-> weights]

\* The scenario with no activity at all.
Idle(timeframe) ==
  [timeframe |-> timeframe,
   company_state |->
     [cash |-> Zero, accounts_receivable |-> Zero, accounts_payable |-> Zero,
      inventory |-> Zero, fixed_assets |-> Zero,
      accumulated_depreciation |-> Zero, debt |-> Zero, equity |-> Zero],
   revenue |-> [plans |-> <<>>, other_recurring_revenue |-> Sched(Zero),
                professional_services_revenue |-> Sched(Zero)],
   headcount |-> [positions |-> <<>>, hires |-> <<>>,
                  attrition_pct |-> Sched(Zero)],
   costs |-> [items |-> <<>>, supplier_contracts |-> <<>>,
              cogs_variable_pct |-> Zero, cogs_per_customer |-> Zero],
   taxes |-> [taxes |-> <<>>, effective_income_tax_rate |-> Zero],
   capex |-> [items |-> <<>>],
   working_capital |-> [dso |-> Zero, dpo |-> Zero, dio |-> Zero,
                        min_cash_balance |-> Zero],
   funding |-> [equity_rounds |-> <<>>, debt |-> <<>>],
   valuation |-> Valuation(Frac(18, 100), Frac(3, 100), "perpetuity", R(5),
                           One, <<>>)]

\* Constructor data for the timeframe: any integer horizon, or none given.
TimeFamily ==
  {Idle(Timeframe(d, n)) : d \in StartDates, n \in (-1)..MaxMonths}
  \cup {Idle([start_date |-> d]) : d \in StartDates}

\* One or two revenue plans, with and without deferral, sharing a name or not.
FirstPlans ==
  {Plan("a", R(10), new, Zero, discount, k) :
     new \in {Zero, R(2)}, discount \in {Zero, Frac(1, 10)}, k \in 0..MaxDeferral}

SecondPlans ==
  {Plan(name, R(20), Zero, Frac(1, 10), Zero, k) :
     name \in {"a", "b"}, k \in 0..MaxDeferral}

PlanLists ==
  {<<p>> : p \in FirstPlans} \cup {<<p, q>> : p \in FirstPlans, q \in SecondPlans}

RevenueFamily ==
  {[Idle(Timeframe(Date(2024, 11, 15), n)) EXCEPT
      !.revenue.plans = plans, !.funding.equity_rounds = rounds] :
     n \in {1, MaxMonths}, plans \in PlanLists,
     rounds \in {<<>>, <<Round(0, R(100))>>}}

\* One capex item, perhaps a second; the spec's example of 36,000 over 12.
CapexLists ==
  {<<Capex(at, amount, life, salvage)>> \o more :
     at \in {0, 1}, amount \in {R(36), R(60)}, life \in 1..MaxLife,
     salvage \in {Zero, R(6), R(72)},
     more \in {<<>>, <<Capex(1, R(12), 2, Zero)>>}}

CapexFamily ==
  {[Idle(Timeframe(Date(2024, 1, 31), n)) EXCEPT
      !.capex.items = items,
      !.company_state.fixed_assets = assets[1],
      !.company_state.accumulated_depreciation = assets[2]] :
     n \in {2, MaxMonths + 1}, items \in CapexLists,
     assets \in {<<Zero, Zero>>, <<R(100), R(40)>>}}
  \cup {[Idle(Timeframe(Date(2024, 1, 31), 14)) EXCEPT
           !.capex.items = <<Capex(0, R(36000), 12, Zero)>>]}

\* One debt instrument, perhaps a second; the spec's example of 120,000 over
\* 12; and a debt of half the discard threshold of 1e-6.
DebtLists ==
  {<<Debt("d1", at, R(120), rate, term, grace)>> \o more :
     at \in {0, 1}, rate \in {Zero, Frac(12, 100)}, term \in 1..MaxTerm,
     grace \in {0, 1},
     more \in {<<>>, <<Debt("d2", 1, R(60), Frac(12, 100), 2, 0)>>}}

DebtFamily ==
  {[Idle(Timeframe(Date(2024, 1, 31), n)) EXCEPT
      !.funding.debt = debts, !.company_state.debt = opening] :
     n \in {2, MaxMonths + 1}, debts \in DebtLists, opening \in {Zero, R(50)}}
  \cup {[Idle(Timeframe(Date(2024, 1, 31), 13)) EXCEPT
           !.funding.debt =
              <<Debt("d1", 0, R(120000), Frac(12, 100), 12, 0)>>]}
  \cup {[Idle(Timeframe(Date(2024, 1, 31), MaxTerm)) EXCEPT
           !.company_state.cash = R(100),
           !.funding.debt =
              <<Debt("d1", 0, Frac(1, 2000000), Zero, 2, grace)>>] :
          grace \in {0, 1}}
  \cup {[Idle(Timeframe(Date(2024, 1, 31), MaxMonths + 1)) EXCEPT
           !.funding.debt = <<Debt("d1", 1, R(120), Frac(12, 100), 2, 2)>>]}

\* The valuation settings against three revenue shapes: none, plain, and
\* deferred with a discount (net revenue below zero while nothing is
\* recognized).
ValuationFamily ==
  {[Idle(Timeframe(Date(2024, 1, 31), n)) EXCEPT
      !.revenue.plans = plans, !.funding.equity_rounds = rounds,
      !.valuation = Valuation(rates[1], rates[2], method, exit_multiple,
                              probability, weights)] :
     n \in {0, 1, MaxMonths},
     plans \in {<<>>, <<Plan("a", R(10), Zero, Zero, Zero, 0)>>,
                <<Plan("a", R(10), Zero, Zero, Frac(1, 10), MaxMonths)>>},
     rounds \in {<<>>, <<Round(0, R(100))>>},
     rates \in {<<Frac(18, 100), Frac(3, 100)>>, <<Frac(5, 100), Frac(5, 100)>>},
     method \in {"perpetuity", "multiple"},
     exit_multiple \in {Zero, R(5)},
     probability \in {One, Frac(1, 2)},
     weights \in {<<>>, <<One, R(3)>>}}

\* Every evaluator at once, each switched on or off, over the opening cash
\* and the minimum cash balance.
Switch(on, value, off) == IF on THEN value ELSE off

MixedFamily ==
  {[Idle(Timeframe(Date(2024, 11, 15), MaxMonths)) EXCEPT
      !.company_state.cash = opening,
      !.working_capital =
         [dso |-> Switch(t[4], R(30), Zero), dpo |-> Switch(t[4], R(45), Zero),
          dio |-> Switch(t[4], R(15), Zero), min_cash_balance |-> min_cash],
      !.revenue.plans = Switch(t[1], <<RichPlan>>, <<>>),
      !.revenue.other_recurring_revenue = Sched(Switch(t[1], R(7), Zero)),
      !.revenue.professional_services_revenue = Sched(Switch(t[1], R(9), Zero)),
      !.headcount =
         Switch(t[2],
           [positions |-> <<Position("dev", "eng", R(2)), Position("rep", "sales", Zero)>>,
            hires |-> <<Hire("rep", 1, R(3), R(240)), Hire("dev", 2, One, Zero),
                        Hire("cfo", 1, One, Zero)>>,
            attrition_pct |-> Sched(Frac(1, 2))],
           [positions |-> <<>>, hires |-> <<>>, attrition_pct |-> Sched(Zero)]),
      !.costs =
         Switch(t[3],
           [items |-> <<CostItem("fixed", "opex", "gna", R(30), Zero, "revenue"),
                        CostItem("variable", "cogs", "cs", Zero, Frac(1, 4), "revenue"),
                        CostItem("variable", "opex", "gna", Zero, Frac(1, 2),
                                 "gross_revenue")>>,
            supplier_contracts |-> <<Contract(1, R(10), Frac(1, 2), 2, "cogs")>>,
            cogs_variable_pct |-> Frac(1, 4), cogs_per_customer |-> One],
           [items |-> <<>>, supplier_contracts |-> <<>>,
            cogs_variable_pct |-> Zero, cogs_per_customer |-> Zero]),
      !.taxes =
         Switch(t[4],
           [taxes |-> <<Tax("pis", "gross_revenue", Frac(1, 4)),
                        Tax("iss", "net_revenue", Frac(1, 8)),
                        Tax("inss", "payroll", Frac(1, 4)),
                        Tax("irpj", "ebit", Frac(1, 4))>>,
            effective_income_tax_rate |-> Frac(1, 4)],
           [taxes |-> <<>>, effective_income_tax_rate |-> Zero]),
      !.capex.items = Switch(t[5], <<Capex(1, R(36), 2, R(6))>>, <<>>),
      !.funding.debt =
         Switch(t[5], <<Debt("d1", 0, R(200), Frac(12, 100), 2, 1)>>, <<>>),
      !.funding.equity_rounds = Switch(t[6], <<Round(1, R(500))>>, <<>>)] :
     t \in [1..6 -> BOOLEAN],
     opening \in {Zero, R(100), R(-50)},
     min_cash \in {Zero, R(50)}}

\* An operating expense x for which 50 + x lies halfway between two floats of
\* the width modelled: 25 and half a unit in the last place of 75.
HalfwayExpense ==
  Frac(25 * 2 ^ (SignificandBits - 6) + 1, 2 ^ (SignificandBits - 6))

\* Nothing but an opening cash below the minimum cash balance, or nothing but
\* an operating expense with a minimum cash balance of 50, all of them
\* floats of the width modelled.
CashFamily ==
  {[Idle(Timeframe(Date(2024, 1, 31), n)) EXCEPT
      !.company_state.cash = opening,
      !.working_capital.min_cash_balance = min_cash] :
     n \in {1, 2},
     opening \in {Zero, R(-250), R(1 - 2 ^ SignificandBits)},
     min_cash \in {Zero, Frac(3, 2), R(50)}}
  \cup {[Idle(Timeframe(Date(2024, 1, 31), n)) EXCEPT
           !.working_capital.min_cash_balance = R(50),
           !.costs.items =
              <<CostItem("fixed", "opex", "gna", expense, Zero, "revenue")>>] :
          n \in {1, 3}, expense \in {R(10), HalfwayExpense}}

\* build_sample_scenario, sample_data.py:129-133: the timeframe of the sample
\* baseline, with its opening balances, its equity round and its cash floor,
\* the amounts in thousands.  Its revenue plan, headcount, costs and capex
\* item yield fractions that grow over the horizon and are left out.
SampleMonths == 36

SampleScenario ==
  [Idle(Timeframe(Date(2024, 1, 1), SampleMonths)) EXCEPT
     !.company_state.cash = R(2500),
     !.company_state.fixed_assets = R(450),
     !.funding.equity_rounds = <<Round(0, R(3000))>>,
     !.working_capital.min_cash_balance = R(100)]

\* One position without staff and one hire for it, over the month of the hire,
\* the salary override and the attrition rate.
HeadcountFamily ==
  {[Idle(Timeframe(Date(2024, 1, 31), MaxMonths)) EXCEPT
      !.company_state.cash = R(1000),
      !.headcount =
         [positions |-> <<Position("rep", "sales", Zero)>>,
          hires |-> <<Hire("rep", month, R(3), salary_override)>>,
          attrition_pct |-> Sched(attrition)]] :
     month \in 0..2, salary_override \in {Zero, R(240)},
     attrition \in {Zero, Frac(1, 2), One}}

\* The longest horizon of the contract example: months 11 and 12 are in it.
ContractMonths == 14

\* One supplier contract and nothing else: over the short horizon every
\* start month, rate and frequency, and over the long one the spec's example
\* of an escalation every 12 months.
ContractFamily ==
  {[Idle(Timeframe(Date(2024, 1, 31), MaxMonths)) EXCEPT
      !.company_state.cash = R(1000),
      !.costs.supplier_contracts =
         <<Contract(start, R(10), pct, frequency, allocation)>>] :
     start \in 0..2, pct \in {Zero, Frac(1, 2)}, frequency \in {1, 2, 12},
     allocation \in {"cogs", "opex"}}
  \cup {[Idle(Timeframe(Date(2024, 1, 31), ContractMonths)) EXCEPT
           !.company_state.cash = R(10000),
           !.costs.supplier_contracts =
              <<Contract(0, R(100), pct, 12, "opex")>>] :
          pct \in {Zero, Frac(1, 10)}}

\* Working capital: days of sales, payables and inventory outstanding, with
\* opening balances or none, under a revenue that grows and a fixed cost.
WorkingCapitalFamily ==
  {[Idle(Timeframe(Date(2024, 1, 31), 3)) EXCEPT
      !.company_state.cash = R(1000),
      !.company_state.accounts_receivable = opening[1],
      !.company_state.accounts_payable = opening[2],
      !.company_state.inventory = opening[3],
      !.working_capital.dso = days[1],
      !.working_capital.dpo = days[2],
      !.working_capital.dio = days[3],
      !.revenue.plans = <<Plan("a", R(10), R(2), Zero, Frac(1, 10), 0)>>,
      !.costs.items = <<CostItem("fixed", "opex", "gna", R(30), Zero, "revenue")>>] :
     opening \in {<<Zero, Zero, Zero>>, <<R(40), R(25), R(5)>>},
     days \in {<<R(30), R(45), R(15)>>, <<R(15), Zero, R(60)>>}}

ScenarioInputs ==
  TimeFamily \cup RevenueFamily \cup CapexFamily \cup DebtFamily
  \cup ValuationFamily \cup MixedFamily \cup CashFamily \cup {SampleScenario}
  \cup HeadcountFamily \cup ContractFamily \cup WorkingCapitalFamily

(***************************************************************************)
(* The actions.                                                            *)
(***************************************************************************)
Init ==
  /\ pc = "construct"
  /\ scenario \in ScenarioInputs
  /\ month_index = 0
  /\ plan_states = <<>>
  /\ headcount_states = <<>>
  /\ debt_states = <<>>
  /\ depreciation_tracks = <<>>
  /\ cash = Zero
  /\ accounts_receivable = Zero
  /\ accounts_payable = Zero
  /\ inventory = Zero
  /\ fixed_assets = Zero
  /\ accumulated_depreciation = Zero
  /\ debt_balance = Zero
  /\ equity = Zero
  /\ monthly_results = <<>>
  /\ annual_accumulators = <<>>
  /\ annual_cash = <<>>
  /\ result = <<>>
  /\ error = ""
  /\ given = scenario
  /\ outcomes = <<>>
  /\ invocation = 1
  /\ suspended = <<>>
  /\ interleaved = FALSE
  /\ SCENARIOS = <<>>
  /\ request = NoRequest
  /\ response = <<>>
  /\ posts = <<>>

\* ScenarioInput(...) with its TimeframeSettings(...): the constructors
\* either raise ValidationError or yield the object.
Construct ==
  /\ pc = "construct"
  /\ \E timeframe \in {TimeframeSettings(scenario.timeframe)} :
         /\ pc' = IF timeframe.error # "" THEN "rejected" ELSE "constructed"
         /\ error' = timeframe.error
  /\ UNCHANGED <<scenario, month_index, running, result, beyond>>

\* A list or dict that is kept from one invocation to the next.
StillBound(previous) == previous

\* run, lines 69, 81, 83, 86 and 87: a name of run is bound to a new empty
\* list or dict, whatever an earlier invocation bound it to.
NewEmpty(previous) == <<>>

\* run, lines 60-87: the running state is created from the scenario.
RunEnter ==
  /\ pc = "constructed"
  /\ pc' = "loop"
  /\ month_index' = 0
  /\ plan_states' = PlanStatesOf(scenario.revenue.plans)
  /\ headcount_states' = HeadcountStatesOf(scenario.headcount.positions, <<>>)
  /\ debt_states' = NewEmpty(debt_states)
  /\ cash' = scenario.company_state.cash
  /\ accounts_receivable' = scenario.company_state.accounts_receivable
  /\ accounts_payable' = scenario.company_state.accounts_payable
  /\ inventory' = scenario.company_state.inventory
  /\ fixed_assets' = scenario.company_state.fixed_assets
  /\ accumulated_depreciation' = scenario.company_state.accumulated_depreciation
  /\ debt_balance' = scenario.company_state.debt
  /\ equity' = IF Truthy(scenario.company_state.equity)
                 THEN scenario.company_state.equity
                 ELSE RAdd(scenario.company_state.cash,
                           net_fixed_assets(scenario.company_state))
  /\ depreciation_tracks' = NewEmpty(depreciation_tracks)
  /\ monthly_results' = NewEmpty(monthly_results)
  /\ annual_accumulators' = NewEmpty(annual_accumulators)
  /\ annual_cash' = NewEmpty(annual_cash)
  /\ UNCHANGED <<scenario, result, error, beyond>>

\* run, lines 89-236: one pass of the loop.
MonthStep ==
  /\ pc = "loop"
  /\ LoopContinues(month_index, scenario.timeframe.months)
  /\ \E body \in {MonthBody(month_index)} :
         /\ plan_states' = body.plan_states
         /\ headcount_states' = body.headcount_states
         /\ debt_states' = body.debt_states
         /\ depreciation_tracks' = body.depreciation_tracks
         /\ cash' = body.balance_sheet.cash
         /\ accounts_receivable' = body.balance_sheet.accounts_receivable
         /\ accounts_payable' = body.balance_sheet.accounts_payable
         /\ inventory' = body.balance_sheet.inventory
         /\ fixed_assets' = body.balance_sheet.fixed_assets
         /\ accumulated_depreciation' = body.balance_sheet.accumulated_depreciation
         /\ debt_balance' = body.balance_sheet.debt
         /\ equity' = body.balance_sheet.equity
         /\ monthly_results' = Append(monthly_results, body.projection)
         /\ annual_accumulators' = body.annual_accumulators
         /\ annual_cash' = body.annual_cash
  /\ month_index' = month_index + 1
  /\ UNCHANGED <<pc, scenario, result, error, beyond>>

\* run, lines 238-242: after the loop, the annual summaries, the valuation
\* and the dashboards; run returns the ScenarioResult or raises.
Finish ==
  /\ pc = "loop"
  /\ ~LoopContinues(month_index, scenario.timeframe.months)
  /\ \E annual_summaries \in
          {_build_annual_summaries(annual_accumulators, annual_cash)} :
     \E valuation \in
          {_build_valuation(monthly_results, annual_summaries, scenario)} :
         /\ pc' = IF valuation.error # "" THEN "raised" ELSE "returned"
         /\ error' = valuation.error
         /\ result' = IF valuation.error # "" THEN <<>>
                      ELSE [monthly |-> monthly_results,
                            annual |-> annual_summaries,
                            valuation |-> valuation.value,
                            dashboards |-> _build_dashboards(monthly_results)]
  /\ UNCHANGED <<scenario, month_index, running, beyond>>

Next == Construct \/ RunEnter \/ MonthStep \/ Finish

Spec == Init /\ [][Next]_vars

\* What an invocation that ended gave its caller.
Outcome == [pc |-> pc, result |-> result, error |-> error]

\* The caller notes the outcome and calls run once more with the same
\* calculator and the same input object.
RunAgain ==
  /\ pc \in {"returned", "raised"}
  /\ outcomes = <<>>
  /\ outcomes' = <<Outcome>>
  /\ pc' = "constructed"
  /\ UNCHANGED <<scenario, month_index, running, result, error, given>>
  /\ UNCHANGED <<invocation, suspended, interleaved>>
  /\ UNCHANGED <<SCENARIOS, request, response, posts>>

NextRepeat == Construct \/ RunEnter \/ MonthStep \/ Finish \/ RunAgain

SpecRepeat == Init /\ [][NextRepeat]_vars

(***************************************************************************)
(* Two invocations of run at once on the one calculator of main.py:21-22.  *)
(* The steps of the two are interleaved month by month; when both have     *)
(* ended, each scenario is run once more, alone.                           *)
(***************************************************************************)
\* The frame of the invocation at work: the names of run, lines 60-87.
Frame ==
  [pc |-> pc,
   scenario |-> scenario,
   month_index |-> month_index,
   plan_states |-> plan_states,
   headcount_states |-> headcount_states,
   debt_states |-> debt_states,
   depreciation_tracks |-> depreciation_tracks,
   cash |-> cash,
   accounts_receivable |-> accounts_receivable,
   accounts_payable |-> accounts_payable,
   inventory |-> inventory,
   fixed_assets |-> fixed_assets,
   accumulated_depreciation |-> accumulated_depreciation,
   debt_balance |-> debt_balance,
   equity |-> equity,
   monthly_results |-> monthly_results,
   annual_accumulators |-> annual_accumulators,
   annual_cash |-> annual_cash,
   result |-> result,
   error |-> error]

\* The frame of an invocation that has not entered run yet.
NewFrame(input) ==
  [pc |-> "constructed",
   scenario |-> input,
   month_index |-> 0,
   plan_states |-> <<>>,
   headcount_states |-> <<>>,
   debt_states |-> <<>>,
   depreciation_tracks |-> <<>>,
   cash |-> Zero,
   accounts_receivable |-> Zero,
   accounts_payable |-> Zero,
   inventory |-> Zero,
   fixed_assets |-> Zero,
   accumulated_depreciation |-> Zero,
   debt_balance |-> Zero,
   equity |-> Zero,
   monthly_results |-> <<>>,
   annual_accumulators |-> <<>>,
   annual_cash |-> <<>>,
   result |-> <<>>,
   error |-> ""]

\* Two scenarios with the same plan, role, capex item and loan, of different
\* sizes and horizons.
ConcurrentInputs ==
  {[Idle(Timeframe(Date(2024, 11, 15), n)) EXCEPT
      !.company_state.cash = R(1000),
      !.revenue.plans = <<Plan("a", customers, R(2), Zero, Zero, 1)>>,
      !.headcount =
         [positions |-> <<Position("rep", "sales", One)>>,
          hires |-> <<Hire("rep", 1, customers, Zero)>>,
          attrition_pct |-> Sched(Zero)],
      !.capex.items = <<Capex(0, R(36), 2, Zero)>>,
      !.funding.debt = <<Debt("d1", 0, R(120), Zero, 2, 0)>>] :
     n \in {2, 3}, customers \in {R(10), R(20)}}

InitConcurrent ==
  /\ pc = "constructed"
  /\ scenario \in ConcurrentInputs
  /\ month_index = 0
  /\ plan_states = <<>>
  /\ headcount_states = <<>>
  /\ debt_states = <<>>
  /\ depreciation_tracks = <<>>
  /\ cash = Zero
  /\ accounts_receivable = Zero
  /\ accounts_payable = Zero
  /\ inventory = Zero
  /\ fixed_assets = Zero
  /\ accumulated_depreciation = Zero
  /\ debt_balance = Zero
  /\ equity = Zero
  /\ monthly_results = <<>>
  /\ annual_accumulators = <<>>
  /\ annual_cash = <<>>
  /\ result = <<>>
  /\ error = ""
  /\ given = scenario
  /\ outcomes = <<>>
  /\ invocation = 1
  /\ suspended \in {NewFrame(input) : input \in ConcurrentInputs}
  /\ interleaved = FALSE
  /\ SCENARIOS = <<>>
  /\ request = NoRequest
  /\ response = <<>>
  /\ posts = <<>>

\* A name kept on the calculator: the invocation resumed finds what the other
\* one left in it.
OnCalculator(own, shared) == shared

\* A local name of run: the invocation resumed finds its own value.
Local(own, shared) == own

\* The scheduler suspends the invocation at work between two of its steps and
\* resumes the other one.
Yield ==
  /\ suspended # <<>>
  /\ outcomes = <<>>
  /\ suspended' = Frame
  /\ invocation' = 3 - invocation
  /\ pc' = suspended.pc
  /\ scenario' = suspended.scenario
  /\ given' = suspended.scenario
  /\ month_index' = suspended.month_index
  /\ plan_states' = Local(suspended.plan_states, plan_states)
  /\ headcount_states' = Local(suspended.headcount_states, headcount_states)
  /\ debt_states' = Local(suspended.debt_states, debt_states)
  /\ depreciation_tracks' = Local(suspended.depreciation_tracks, depreciation_tracks)
  /\ cash' = Local(suspended.cash, cash)
  /\ accounts_receivable' = Local(suspended.accounts_receivable, accounts_receivable)
  /\ accounts_payable' = Local(suspended.accounts_payable, accounts_payable)
  /\ inventory' = Local(suspended.inventory, inventory)
  /\ fixed_assets' = Local(suspended.fixed_assets, fixed_assets)
  /\ accumulated_depreciation' = Local(suspended.accumulated_depreciation, accumulated_depreciation)
  /\ debt_balance' = Local(suspended.debt_balance, debt_balance)
  /\ equity' = Local(suspended.equity, equity)
  /\ monthly_results' = Local(suspended.monthly_results, monthly_results)
  /\ annual_accumulators' = Local(suspended.annual_accumulators, annual_accumulators)
  /\ annual_cash' = Local(suspended.annual_cash, annual_cash)
  /\ result' = suspended.result
  /\ error' = suspended.error
  /\ interleaved' =
       (interleaved \/ (/\ pc = "loop" /\ month_index > 0
                        /\ suspended.pc = "loop" /\ suspended.month_index > 0))
  /\ UNCHANGED <<outcomes, SCENARIOS, request, response, posts>>

\* Both invocations have ended: their outcomes are noted and the scenario of
\* the first is run again, alone.
Collect ==
  /\ suspended # <<>>
  /\ outcomes = <<>>
  /\ invocation = 1
  /\ pc \in {"returned", "raised"}
  /\ suspended.pc \in {"returned", "raised"}
  /\ outcomes' = <<Outcome, [pc |-> suspended.pc, result |-> suspended.result,
                             error |-> suspended.error]>>
  /\ pc' = "constructed"
  /\ UNCHANGED <<scenario, month_index, running, result, error, given>>
  /\ UNCHANGED <<invocation, suspended, interleaved>>
  /\ UNCHANGED <<SCENARIOS, request, response, posts>>

\* The run alone of the first scenario has ended: the scenario of the second
\* is run, alone.
ReplayOther ==
  /\ Len(outcomes) = 2
  /\ invocation = 1
  /\ pc \in {"returned", "raised"}
  /\ outcomes' = Append(outcomes, Outcome)
  /\ invocation' = 2
  /\ scenario' = suspended.scenario
  /\ given' = suspended.scenario
  /\ pc' = "constructed"
  /\ UNCHANGED <<month_index, running, result, error, suspended, interleaved>>
  /\ UNCHANGED <<SCENARIOS, request, response, posts>>

NextConcurrent ==
  RunEnter \/ MonthStep \/ Finish \/ Yield \/ Collect \/ ReplayOther

SpecConcurrent == InitConcurrent /\ [][NextConcurrent]_vars

(***************************************************************************)
(* The scenario store and its handlers: src/src/valuation_app/main.py.     *)
(* schemas.py repeats its __future__ import at line 5, a SyntaxError that  *)
(* keeps main.py from being imported; the handlers are modelled as they    *)
(* are written.  Requests are served one at a time.                        *)
(***************************************************************************)
\* SCENARIOS.get(scenario_id): the entries stored under the id.
Lookup(store, scenario_id) ==
  SelectSeq(store, LAMBDA entry : entry.id = scenario_id)

\* SCENARIOS[scenario.meta.id] = scenario, line 28: a key keeps its place in
\* the dict, a new key is added at the end.
Stored(store, scenario_in) ==
  IF Lookup(store, scenario_in.meta.id) # <<>>
    THEN [k \in DOMAIN store |->
            IF store[k].id = scenario_in.meta.id
              THEN [id |-> store[k].id, scenario |-> scenario_in]
              ELSE store[k]]
    ELSE Append(store, [id |-> scenario_in.meta.id, scenario |-> scenario_in])

\* The ids requests name; none is ever posted under the last one.
PostedIds == {"s1", "s2"}
RequestIds == PostedIds \cup {"s3"}

\* The scenarios clients post: two that run, of different sizes, and one whose
\* perpetuity growth equals its wacc.
StoreScenarios ==
  {[Idle(Timeframe(Date(2024, 11, 15), 2)) EXCEPT
      !.company_state.cash = R(1000),
      !.revenue.plans = <<Plan("a", customers, R(2), Zero, Zero, 0)>>] :
     customers \in {R(10), R(20)}}
  \cup {[Idle(Timeframe(Date(2024, 11, 15), 2)) EXCEPT
           !.valuation = Valuation(Frac(5, 100), Frac(5, 100), "perpetuity",
                                   R(5), One, <<>>)]}

\* ScenarioCreateRequest.scenario: a scenario with its meta.id.
Payloads ==
  {[meta |-> [id |-> id]] @@ input : id \in PostedIds, input \in StoreScenarios}

InitStore ==
  /\ pc = "idle"
  /\ scenario = <<>>
  /\ month_index = 0
  /\ plan_states = <<>>
  /\ headcount_states = <<>>
  /\ debt_states = <<>>
  /\ depreciation_tracks = <<>>
  /\ cash = Zero
  /\ accounts_receivable = Zero
  /\ accounts_payable = Zero
  /\ inventory = Zero
  /\ fixed_assets = Zero
  /\ accumulated_depreciation = Zero
  /\ debt_balance = Zero
  /\ equity = Zero
  /\ monthly_results = <<>>
  /\ annual_accumulators = <<>>
  /\ annual_cash = <<>>
  /\ result = <<>>
  /\ error = ""
  /\ given = <<>>
  /\ outcomes = <<>>
  /\ invocation = 1
  /\ suspended = <<>>
  /\ interleaved = FALSE
  /\ SCENARIOS = <<>>
  /\ request = NoRequest
  /\ response = <<>>
  /\ posts = <<>>

\* POST /scenarios, lines 25-29.
create_scenario ==
  /\ pc = "idle"
  /\ \E payload \in Payloads :
       /\ SCENARIOS' = Stored(SCENARIOS, payload)
       /\ posts' = [id \in DOMAIN posts \cup {payload.meta.id} |->
                      IF id = payload.meta.id THEN payload ELSE posts[id]]
       /\ response' = [handler |-> "create_scenario", status |-> 200,
                       scenario_id |-> payload.meta.id]
  /\ UNCHANGED <<pc, scenario, month_index, running, result, error, request>>
  /\ UNCHANGED <<given, outcomes, invocation, suspended, interleaved>>

\* GET /scenarios, lines 32-34.
list_scenarios ==
  /\ pc = "idle"
  /\ response' = [handler |-> "list_scenarios", status |-> 200,
                  scenarios |-> [k \in DOMAIN SCENARIOS |-> SCENARIOS[k].id]]
  /\ UNCHANGED <<pc, scenario, month_index, running, result, error, request>>
  /\ UNCHANGED <<given, outcomes, invocation, suspended, interleaved>>
  /\ UNCHANGED <<SCENARIOS, posts>>

\* GET /scenarios/{scenario_id}, lines 52-57: the lookup, answered 404 if it
\* finds nothing, and the call of calculator.run.
get_scenario_projection ==
  /\ pc = "idle"
  /\ \E scenario_id \in RequestIds :
       \E found \in {Lookup(SCENARIOS, scenario_id)} :
         IF found = <<>>
           THEN /\ response' = [handler |-> "get_scenario_projection",
                                scenario_id |-> scenario_id, status |-> 404]
                /\ UNCHANGED <<pc, scenario, given, request>>
           ELSE /\ scenario' = found[1].scenario
                /\ given' = found[1].scenario
                /\ request' = [handler |-> "get_scenario_projection",
                                scenario_id |-> scenario_id]
                /\ pc' = "constructed"
                /\ response' = <<>>
  /\ UNCHANGED <<month_index, running, result, error>>
  /\ UNCHANGED <<outcomes, invocation, suspended, interleaved>>
  /\ UNCHANGED <<SCENARIOS, posts>>

\* GET /scenarios/{scenario_id}, line 58: the result is returned; an
\* exception of run leaves the handler and the request is answered 500.
get_scenario_projection_return ==
  /\ pc \in {"returned", "raised"}
  /\ request.handler = "get_scenario_projection"
  /\ response' = [handler |-> "get_scenario_projection",
                  scenario_id |-> request.scenario_id,
                  status |-> IF pc = "returned" THEN 200 ELSE 500,
                  ran |-> scenario, result |-> result, error |-> error]
  /\ request' = NoRequest
  /\ pc' = "idle"
  /\ UNCHANGED <<scenario, month_index, running, result, error>>
  /\ UNCHANGED <<given, outcomes, invocation, suspended, interleaved>>
  /\ UNCHANGED <<SCENARIOS, posts>>

\* ScenarioRunRequest, schemas.py lines 24-27: three Optional fields, None
\* written <<>> and a value v written <<v>>.
RunRequests ==
  [scenario_id : {<<>>, <<"s1">>, <<"s3">>},
   scenario : {<<>>} \cup {<<payload>> : payload \in
                            {p \in Payloads :
                               /\ p.meta.id = "s2"
                               /\ p.revenue.plans # <<>>
                               /\ p.revenue.plans[1].initial_customers = R(20)}},
   months : {<<>>, <<0>>, <<3>>}]

\* run_scenario, lines 39-43: the inline scenario if there is one, else the
\* stored scenario of a scenario_id that is not empty, else None.
Resolved(store, payload) ==
  IF payload.scenario # <<>> THEN payload.scenario
  ELSE IF payload.scenario_id # <<>> /\ payload.scenario_id[1] # ""
    THEN [k \in DOMAIN Lookup(store, payload.scenario_id[1]) |->
            Lookup(store, payload.scenario_id[1])[k].scenario]
  ELSE <<>>

\* run_scenario, lines 46-47: `if payload.months:` holds for a months that is
\* neither None nor 0, and the scenario run is then a copy with that months.
Overridden(scenario_in, months) ==
  IF months # <<>> /\ months[1] # 0
    THEN [scenario_in EXCEPT !.timeframe.months = months[1]]
    ELSE scenario_in

\* The months assigned on the object resolved: a scenario fetched from the
\* store stays the stored object.
BoundToStored(payload) ==
  IF payload.scenario # <<>> THEN "" ELSE payload.scenario_id[1]

\* run_scenario, lines 40-47: the id of the stored object the name `scenario`
\* is bound to when run is called, "" if it is bound to another object: the
\* inline scenario, or the copy line 47 makes (BaseModel.copy builds a new
\* object, pydantic/__init__.py line 90).
BoundTo(payload) ==
  IF payload.scenario # <<>>
     \/ (payload.months # <<>> /\ payload.months[1] # 0)
    THEN ""
    ELSE payload.scenario_id[1]

\* The store once the object stored under `bound` has the value of
\* scenario_in: the objects of the store are shared with their users.
WrittenThrough(store, bound, scenario_in) ==
  [k \in DOMAIN store |->
     IF store[k].id = bound
       THEN [id |-> store[k].id, scenario |-> scenario_in]
       ELSE store[k]]

\* POST /run, lines 37-48: the scenario is resolved, answered 404 if there is
\* none, and calculator.run is called on it or on its copy.
run_scenario ==
  /\ pc = "idle"
  /\ \E payload \in RunRequests :
       \E found \in {Resolved(SCENARIOS, payload)} :
         IF found = <<>>
           THEN /\ response' = [handler |-> "run_scenario", payload |-> payload,
                                status |-> 404]
                /\ UNCHANGED <<pc, scenario, given, request, SCENARIOS>>
           ELSE /\ scenario' = Overridden(found[1], payload.months)
                /\ given' = Overridden(found[1], payload.months)
                /\ request' = [handler |-> "run_scenario", payload |-> payload,
                                resolved |-> found[1]]
                /\ pc' = "constructed"
                /\ response' = <<>>
                /\ SCENARIOS' = WrittenThrough(SCENARIOS, BoundTo(payload),
                                               Overridden(found[1], payload.months))
  /\ UNCHANGED <<month_index, running, result, error>>
  /\ UNCHANGED <<outcomes, invocation, suspended, interleaved>>
  /\ UNCHANGED posts

\* POST /run, line 49: the result is returned; an exception of run leaves
\* the handler and the request is answered 500.
run_scenario_return ==
  /\ pc \in {"returned", "raised"}
  /\ request.handler = "run_scenario"
  /\ response' = [handler |-> "run_scenario", payload |-> request.payload,
                  status |-> IF pc = "returned" THEN 200 ELSE 500,
                  resolved |-> request.resolved, ran |-> scenario,
                  result |-> result, error |-> error]
  /\ request' = NoRequest
  /\ pc' = "idle"
  /\ UNCHANGED <<scenario, month_index, running, result, error>>
  /\ UNCHANGED <<given, outcomes, invocation, suspended, interleaved>>
  /\ UNCHANGED <<SCENARIOS, posts>>

\* GET /scenarios/{scenario_id}/compare?ids=...: the path id and the parts
\* of ids between its commas.
CompareRequests ==
  [scenario_id : {"s1", "s3"}, ids : {<<"">>, <<"s2">>, <<"s1", "s3">>}]

\* compare_scenarios, lines 66-69 at position `at` of base_ids: the request
\* is answered 404 if the id is not stored, else calculator.run is called on
\* the scenario stored.
CompareAt(base_ids, at, valuations) ==
  \E found \in {Lookup(SCENARIOS, base_ids[at])} :
    IF found = <<>>
      THEN /\ response' = [handler |-> "compare_scenarios",
                           scenario_ids |-> base_ids, status |-> 404]
           /\ request' = NoRequest
           /\ pc' = "idle"
           /\ UNCHANGED <<scenario, given>>
      ELSE /\ scenario' = found[1].scenario
           /\ given' = found[1].scenario
           /\ request' = [handler |-> "compare_scenarios", base_ids |-> base_ids,
                           at |-> at, valuations |-> valuations]
           /\ pc' = "constructed"
           /\ response' = <<>>

\* compare_scenarios, lines 63-69: base_ids is built and its first scenario
\* is looked up.
compare_scenarios ==
  /\ pc = "idle"
  /\ \E query \in CompareRequests :
       CompareAt(<<query.scenario_id>>
                   \o SelectSeq(query.ids, LAMBDA part : part # ""),
                 1, <<>>)
  /\ UNCHANGED <<month_index, running, result, error>>
  /\ UNCHANGED <<outcomes, invocation, suspended, interleaved>>
  /\ UNCHANGED <<SCENARIOS, posts>>

\* compare_scenarios, lines 65-71 after a run: an exception leaves the
\* handler (500); else the DCF of the result is appended (the enterprise
\* value is read from it) and the loop goes on to the next id, or the lists
\* are returned.
compare_scenarios_next ==
  /\ pc \in {"returned", "raised"}
  /\ request.handler = "compare_scenarios"
  /\ IF pc = "raised"
       THEN /\ response' = [handler |-> "compare_scenarios",
                            scenario_ids |-> request.base_ids, status |-> 500]
            /\ request' = NoRequest
            /\ pc' = "idle"
            /\ UNCHANGED <<scenario, given>>
     ELSE IF request.at = Len(request.base_ids)
       THEN /\ response' = [handler |-> "compare_scenarios",
                            scenario_ids |-> request.base_ids, status |-> 200,
                            valuation |-> Append(request.valuations,
                                                 result.valuation.dcf)]
            /\ request' = NoRequest
            /\ pc' = "idle"
            /\ UNCHANGED <<scenario, given>>
     ELSE CompareAt(request.base_ids, request.at + 1,
                    Append(request.valuations, result.valuation.dcf))
  /\ UNCHANGED <<month_index, running, result, error>>
  /\ UNCHANGED <<outcomes, invocation, suspended, interleaved>>
  /\ UNCHANGED <<SCENARIOS, posts>>

NextStore ==
  \/ create_scenario \/ list_scenarios
  \/ get_scenario_projection \/ get_scenario_projection_return
  \/ run_scenario \/ run_scenario_return
  \/ compare_scenarios \/ compare_scenarios_next
  \/ RunEnter \/ MonthStep \/ Finish

SpecStore == InitStore /\ [][NextStore]_vars

(***************************************************************************)
(* Properties of the run.                                                  *)
(***************************************************************************)
\* run is over: it returned its ScenarioResult or raised.
RunEnded == pc \in {"returned", "raised"}

\* C1: for a horizon of N >= 1 months the loop of run appends exactly N
\* monthly projections, those of the month indexes 0, 1, ..., N - 1 in this
\* order (the k-th starts k - 1 months after the start date), and the result
\* run returns carries this list as its monthly list.
C1_OneProjectionPerMonth ==
  (RunEnded /\ scenario.timeframe.months >= 1) =>
    /\ Len(monthly_results) = scenario.timeframe.months
    /\ \A k \in DOMAIN monthly_results :
         /\ monthly_results[k].locals.month_index = k - 1
         /\ monthly_results[k].period_start =
              _add_months(scenario.timeframe.start_date, k - 1)
    /\ (pc = "returned" => result.monthly = monthly_results)

\* A run over the longest horizon explored has returned all its months.
C1_Witness ==
  /\ pc = "returned"
  /\ scenario.timeframe.months = MaxMonths
  /\ Len(result.monthly) = MaxMonths
  /\ result.monthly[MaxMonths].locals.month_index = MaxMonths - 1

\* C2: in every month simulated, whatever the inputs, the ending cash
\* emitted (cash_flow.ending_cash and balance_sheet.cash) is at least
\* working_capital.min_cash_balance.
C2_EndingCashAtLeastMinimum ==
  \A k \in DOMAIN monthly_results :
    /\ RLe(scenario.working_capital.min_cash_balance,
           monthly_results[k].cash_flow.ending_cash)
    /\ RLe(scenario.working_capital.min_cash_balance,
           monthly_results[k].balance_sheet.cash)

\* C3: a timeframe of fewer than one month is rejected when the input is
\* constructed, so that run is never entered with such a horizon.
C3_ZeroHorizonRejected ==
  pc \in {"constructed", "loop", "returned", "raised"} =>
    scenario.timeframe.months >= 1

\* C4: with the perpetuity method and wacc equal to the perpetual growth
\* rate, a run over at least one month returns its result and raises nothing.
C4_PerpetuityAtGrowthReturns ==
  (/\ RunEnded
   /\ scenario.timeframe.months >= 1
   /\ scenario.valuation.terminal_method = "perpetuity"
   /\ scenario.valuation.wacc = scenario.valuation.perpetual_growth_rate) =>
    pc = "returned" /\ error = ""

\* C5: a run that produced no annual summary (no month was simulated) still
\* returns a result, whose terminal value is 0, whose multiples are empty and
\* whose VC exit value, ownership, post-money and pre-money are all 0.
C5_NoAnnualSummaryZeroValuation ==
  (RunEnded /\ annual_accumulators = <<>>) =>
    /\ pc = "returned"
    /\ result.annual = <<>>
    /\ result.valuation.dcf.terminal_value = Zero
    /\ result.valuation.multiples = <<>>
    /\ result.valuation.vc_method =
         [exit_value |-> Zero, ownership_required |-> Zero,
          post_money |-> Zero, pre_money |-> Zero]

\* The scenario of C6: one capex item, scheduled at month 0, with a salvage
\* value not above its amount, and no other activity.
SingleCapexAtStart ==
  /\ Len(scenario.capex.items) = 1
  /\ scenario.capex.items[1].month_index = 0
  /\ RLe(scenario.capex.items[1].salvage_value, scenario.capex.items[1].amount)
  /\ scenario.revenue.plans = <<>>
  /\ scenario.funding.debt = <<>>

\* C6: for one capex item of amount A, useful life L and salvage S placed at
\* month 0, the depreciation of each of the months 0..L-1 is (A - S) / L and
\* that of every later month is 0, and once L months have run the
\* accumulated depreciation is its opening value plus A - S.
C6_StraightLineDepreciation ==
  (pc # "construct" /\ pc # "rejected" /\ SingleCapexAtStart) =>
    LET item == scenario.capex.items[1]
        depreciable == RSub(item.amount, item.salvage_value)
    IN  /\ \A k \in DOMAIN monthly_results :
             monthly_results[k].income_statement.depreciation =
               IF k <= item.useful_life_months
                 THEN RDiv(depreciable, R(item.useful_life_months))
                 ELSE Zero
        /\ (Len(monthly_results) >= item.useful_life_months =>
              accumulated_depreciation =
                RAdd(scenario.company_state.accumulated_depreciation,
                     depreciable))

\* The scenario of C7: one debt instrument with no grace period drawn at
\* month 0, no opening debt, and a horizon that covers its term.
SingleTermDebtAtStart ==
  /\ Len(scenario.funding.debt) = 1
  /\ scenario.funding.debt[1].month_index = 0
  /\ scenario.funding.debt[1].grace_period_months = 0
  /\ scenario.funding.debt[1].term_months >= 1
  /\ RLt(Zero, scenario.funding.debt[1].amount)
  /\ IsZero(scenario.company_state.debt)
  /\ scenario.timeframe.months >= scenario.funding.debt[1].term_months

\* The principal repaid in the months 0..T-1 of a run that has ended.
PrincipalPaidOverTerm ==
  [k \in 1..scenario.funding.debt[1].term_months |->
     monthly_results[k].locals.principal_paid]

\* C7 as stated: for one term debt of amount P and term T drawn at month 0
\* without grace, a positive principal is repaid in each of the months
\* 0..T-1, the repayments sum to P, and the debt balance of month T-1 is 0 to
\* within the discard threshold of 1e-6.
C7_TermDebtRepaidOverTerm ==
  (RunEnded /\ SingleTermDebtAtStart) =>
    LET T == scenario.funding.debt[1].term_months
        balance == monthly_results[T].balance_sheet.debt
    IN  /\ \A k \in 1..T : RLt(Zero, PrincipalPaidOverTerm[k])
        /\ RSum(PrincipalPaidOverTerm) = scenario.funding.debt[1].amount
        /\ RLe(<<Abs(balance[1]), balance[2]>>, DebtEpsilon)

\* C7: the same, for a debt whose monthly repayment P / T exceeds the
\* discard threshold of 1e-6 (or whose term is one month): a smaller debt is
\* discarded, with what is left of it, after the first repayment that leaves
\* 1e-6 or less outstanding.
C7_TermDebtAboveThresholdRepaid ==
  (/\ RunEnded
   /\ SingleTermDebtAtStart
   /\ \/ scenario.funding.debt[1].term_months = 1
      \/ RLt(DebtEpsilon, RDiv(scenario.funding.debt[1].amount,
                               R(scenario.funding.debt[1].term_months)))) =>
    LET T == scenario.funding.debt[1].term_months
        balance == monthly_results[T].balance_sheet.debt
    IN  /\ \A k \in 1..T : RLt(Zero, PrincipalPaidOverTerm[k])
        /\ RSum(PrincipalPaidOverTerm) = scenario.funding.debt[1].amount
        /\ RLe(<<Abs(balance[1]), balance[2]>>, DebtEpsilon)

\* The debt of 120,000 over 12 months has been repaid by twelve payments.
C7_Witness ==
  /\ pc = "returned"
  /\ SingleTermDebtAtStart
  /\ scenario.funding.debt[1].amount = R(120000)
  /\ scenario.funding.debt[1].term_months = 12
  /\ RSum(PrincipalPaidOverTerm) = R(120000)
  /\ RLt(Zero, monthly_results[11].balance_sheet.debt)
  /\ IsZero(monthly_results[12].balance_sheet.debt)

\* C8: the ownership the VC method reports lies in [0, 1] for every
\* scenario, those with a zero or negative net revenue, exit multiple or
\* investment included.
C8_OwnershipRequiredInUnitInterval ==
  pc = "returned" =>
    /\ RLe(Zero, result.valuation.vc_method.ownership_required)
    /\ RLe(result.valuation.vc_method.ownership_required, One)

\* C9: a plan with a deferral of k > 0 months recognizes 0 in every month
\* before month k, and what it recognizes in month k is drawn from the
\* amount it billed in month 0.
C9_DeferredRevenueRecognizedAfterK ==
  \A m \in DOMAIN monthly_results :
    \A i \in DOMAIN scenario.revenue.plans :
      LET k == scenario.revenue.plans[i].revenue_deferral_months
          pass == monthly_results[m].locals.per_plan[i]
      IN  k > 0 =>
            /\ (m - 1 < k => IsZero(pass.recognized))
            /\ (m - 1 = k =>
                  pass.popped =
                    monthly_results[1].locals.per_plan[i].gross_revenue)

\* C10: at the start of the run and after the revenue evaluation of every
\* month, the deferred_revenue queue of each plan's running state holds
\* exactly revenue_deferral_months entries.
C10_DeferralQueueLengthConstant ==
  /\ pc \in {"loop", "returned", "raised"} =>
       \A i \in DOMAIN scenario.revenue.plans :
         Len(plan_states[scenario.revenue.plans[i].name].deferred_revenue) =
           scenario.revenue.plans[i].revenue_deferral_months
  /\ \A m \in DOMAIN monthly_results :
       \A i \in DOMAIN scenario.revenue.plans :
         monthly_results[m].locals.per_plan[i].queue_len =
           scenario.revenue.plans[i].revenue_deferral_months

\* C11: every DebtState in the running list after a month has
\* outstanding >= 0 and remaining_term >= 0, and none of them, those inside
\* their grace period included, has outstanding <= 1e-6.
C11_DebtStatesAboveThreshold ==
  \A k \in DOMAIN debt_states :
    /\ RLe(Zero, debt_states[k].outstanding)
    /\ debt_states[k].remaining_term >= 0
    /\ RLt(DebtEpsilon, debt_states[k].outstanding)


\* The monthly gross revenue of the projections that start in one year, in
\* month order.
RECURSIVE GrossRevenueOfYear(_, _)
GrossRevenueOfYear(monthly, year) ==
  IF monthly = <<>> THEN <<>>
  ELSE (IF Head(monthly).period_start.year = year
          THEN <<Head(monthly).income_statement.gross_revenue>> ELSE <<>>)
       \o GrossRevenueOfYear(Tail(monthly), year)

\* C12: the annual summaries of a returned result hold exactly one entry
\* for each calendar year in which a monthly projection starts, in ascending
\* order of year, and the gross_revenue of each entry is the sum of the monthly
\* gross_revenue of the projections that start in that year.
C12_AnnualSummariesPerCalendarYear ==
  pc = "returned" =>
    /\ {result.annual[i].year : i \in DOMAIN result.annual} =
         {result.monthly[k].period_start.year : k \in DOMAIN result.monthly}
    /\ \A i, j \in DOMAIN result.annual :
         i < j => result.annual[i].year < result.annual[j].year
    /\ \A i \in DOMAIN result.annual :
         result.annual[i].income_statement.gross_revenue =
           RSum(GrossRevenueOfYear(result.monthly, result.annual[i].year))

\* A returned run whose months fall in two calendar years, both with revenue
\* in more than one month.
C12_Witness ==
  /\ pc = "returned"
  /\ Len(result.annual) = 2
  /\ \A i \in DOMAIN result.annual :
       /\ Len(GrossRevenueOfYear(result.monthly, result.annual[i].year)) = 2
       /\ \A g \in DOMAIN GrossRevenueOfYear(result.monthly, result.annual[i].year) :
            RLt(Zero, GrossRevenueOfYear(result.monthly, result.annual[i].year)[g])


\* The years of the annual summaries of the result.
AnnualYears == {result.annual[i].year : i \in DOMAIN result.annual}

\* The run of the sample baseline has returned.
SampleReturned == pc = "returned" /\ scenario = SampleScenario

\* C13 as stated: the annual summaries of the sample baseline (36 months
\* from its start date) cover the years start_year, start_year + 1,
\* start_year + 2 and start_year + 3.
C13_SampleCoversFourYears ==
  SampleReturned =>
    AnnualYears = scenario.timeframe.start_date.year
                    .. (scenario.timeframe.start_date.year + 3)

\* C13: the annual summaries of the sample baseline, whose 36 months
\* start on 1 January, cover the years start_year, start_year + 1 and
\* start_year + 2 and no other: the last month starts in December of
\* start_year + 2.
C13_SampleCoversThreeYears ==
  SampleReturned =>
    /\ AnnualYears = scenario.timeframe.start_date.year
                       .. (scenario.timeframe.start_date.year + 2)
    /\ result.monthly[SampleMonths].period_start =
         Date(scenario.timeframe.start_date.year + 2, 12, 1)

\* The sample baseline has returned its 36 months and its annual summaries.
C13_Witness ==
  /\ SampleReturned
  /\ Len(result.monthly) = SampleMonths
  /\ Len(result.annual) > 0


\* The scenario of the backstop example: no opening cash, a minimum cash
\* balance of 50, no revenue plan and one positive operating expense.
BackstopExample ==
  /\ IsZero(scenario.company_state.cash)
  /\ scenario.working_capital.min_cash_balance = R(50)
  /\ scenario.revenue.plans = <<>>
  /\ Len(scenario.costs.items) = 1
  /\ RLt(Zero, scenario.costs.items[1].base_amount)

\* C14: with no opening cash, a minimum cash balance of 50 (the spec's
\* 50,000), no revenue and a positive operating expense, the ending cash of
\* every month is exactly the minimum cash balance, and the financing cash
\* flow of the month holds the whole shortfall the backstop injected.
C14_BackstopExampleEndsAtMinimum ==
  BackstopExample =>
    \A k \in DOMAIN monthly_results :
      /\ monthly_results[k].cash_flow.ending_cash =
           scenario.working_capital.min_cash_balance
      /\ monthly_results[k].cash_flow.financing_cash_flow =
           monthly_results[k].locals.shortfall
      /\ RLt(Zero, monthly_results[k].locals.shortfall)


\* The sum of base x rate over the tax components on gross or net revenue.
RECURSIVE TaxesOnRevenue(_, _)
TaxesOnRevenue(taxes, revenue_summary) ==
  IF taxes = <<>> THEN Zero
  ELSE RAdd(IF Head(taxes).base = "gross_revenue"
              THEN RMul(revenue_summary.total_gross, Head(taxes).rate)
            ELSE IF Head(taxes).base = "net_revenue"
              THEN RMul(revenue_summary.total_net, Head(taxes).rate)
            ELSE Zero,
            TaxesOnRevenue(Tail(taxes), revenue_summary))

\* C15: in every month net_revenue is revenue_summary.total_net minus
\* revenue_taxes, and revenue_taxes is the sum of base x rate over the tax
\* components on gross_revenue or net_revenue only; the components on
\* payroll, ebit or ebt are listed in the tax breakdown and change neither.
C15_NetRevenueLessRevenueTaxes ==
  \A k \in DOMAIN monthly_results :
    LET m == monthly_results[k]
    IN  /\ m.income_statement.revenue_taxes =
             TaxesOnRevenue(scenario.taxes.taxes, m.revenue_summary)
        /\ m.income_statement.net_revenue =
             RSub(m.revenue_summary.total_net, m.income_statement.revenue_taxes)
        /\ Len(m.tax_breakdown) = Len(scenario.taxes.taxes)
        /\ \A t \in DOMAIN m.tax_breakdown :
             m.tax_breakdown[t].name = scenario.taxes.taxes[t].name

\* A month with revenue taxes and with a non-zero payroll component and a
\* non-zero ebit component in its breakdown.
C15_Witness ==
  \E k \in DOMAIN monthly_results :
    LET m == monthly_results[k]
    IN  /\ RLt(Zero, m.income_statement.revenue_taxes)
        /\ \E t \in DOMAIN m.tax_breakdown :
             /\ scenario.taxes.taxes[t].base = "payroll"
             /\ RLt(Zero, m.tax_breakdown[t].amount)
        /\ \E t \in DOMAIN m.tax_breakdown :
             /\ scenario.taxes.taxes[t].base = "ebit"
             /\ RLt(Zero, m.tax_breakdown[t].amount)


\* The hires of a positive quantity for a role that has one position, with no
\* staff at the start and an area of its own, and no other hire.
ZeroFteHires ==
  LET positions == scenario.headcount.positions
      hires == scenario.headcount.hires
  IN  {h \in DOMAIN hires :
         /\ RLt(Zero, hires[h].quantity)
         /\ \A g \in DOMAIN hires : hires[g].role = hires[h].role => g = h
         /\ \E p \in DOMAIN positions :
              /\ positions[p].role = hires[h].role
              /\ IsZero(positions[p].current_fte)
              /\ \A q \in DOMAIN positions :
                   positions[q].area = positions[p].area => q = p}

AreaOfRole(role) ==
  LET positions == scenario.headcount.positions
  IN  positions[CHOOSE p \in DOMAIN positions : positions[p].role = role].area

\* What an area contributes to the headcount cost of a month, and its staff.
AreaTotal(projection, area) ==
  LET entries == SelectSeq(projection.headcount_breakdown,
                           LAMBDA entry : entry.area = area)
  IN  IF entries = <<>> THEN [total |-> Zero, fte |-> Zero] ELSE entries[1]

\* Every attrition rate of the months from up to to is below 1.
AttritionBelowOne(from, to) ==
  \A j \in from..to :
    RLt(value_for(scenario.headcount.attrition_pct, j), One)

\* C16 as stated: a hire of a positive quantity at month m for a role
\* whose position starts with zero FTE costs nothing in the months before m
\* and a non-zero amount in month m and in every month after it.
C16_HireCostsFromItsMonth ==
  \A h \in ZeroFteHires : \A k \in DOMAIN monthly_results :
    LET hire == scenario.headcount.hires[h]
        cost == AreaTotal(monthly_results[k], AreaOfRole(hire.role)).total
    IN  IF k - 1 < hire.month_index THEN IsZero(cost) ELSE ~IsZero(cost)

\* C16: such a hire costs nothing in the months before m; in month m
\* and after, as long as every attrition rate from m on has been below 1, its
\* staff is the quantity hired less the attrition of each month from m on,
\* month m included, and its cost is positive.
C16_HireCostsWhileStaffRemains ==
  \A h \in ZeroFteHires : \A k \in DOMAIN monthly_results :
    LET hire == scenario.headcount.hires[h]
        area == AreaTotal(monthly_results[k], AreaOfRole(hire.role))
    IN  IF k - 1 < hire.month_index
          THEN IsZero(area.total)
          ELSE AttritionBelowOne(hire.month_index, k - 1) =>
                 /\ RLt(Zero, area.total)
                 /\ scenario.headcount.attrition_pct.adjustments = <<>> =>
                      area.fte =
                        RMul(hire.quantity,
                             RPow(RSub(One, scenario.headcount.attrition_pct.default),
                                  k - hire.month_index))

\* A hire at month 2 has cost nothing in months 0 and 1 and costs in month 3,
\* after the attrition of two months.
C16_Witness ==
  \E h \in ZeroFteHires :
    /\ scenario.headcount.hires[h].month_index = 2
    /\ RLt(Zero, scenario.headcount.attrition_pct.default)
    /\ AttritionBelowOne(0, MaxMonths)
    /\ Len(monthly_results) >= 4
    /\ IsZero(AreaTotal(monthly_results[2],
                        AreaOfRole(scenario.headcount.hires[h].role)).total)
    /\ RLt(Zero, AreaTotal(monthly_results[4],
                           AreaOfRole(scenario.headcount.hires[h].role)).total)


\* The scenarios with one supplier contract, alone on its cost center.
SingleContract ==
  /\ Len(scenario.costs.supplier_contracts) = 1
  /\ \A i \in DOMAIN scenario.costs.items :
       scenario.costs.items[i].cost_center #
         scenario.costs.supplier_contracts[1].cost_center

\* What a cost center contributes to the costs of a month.
CenterAmount(projection, center) ==
  LET entries == SelectSeq(projection.cost_breakdown,
                           LAMBDA entry : entry.cost_center = center)
  IN  IF entries = <<>> THEN Zero ELSE entries[1].amount

\* The cost a contract is to contribute in a month.
ContractDue(contract, month) ==
  IF month < contract.start_month THEN Zero
  ELSE RMul(contract.base_amount,
            RPow(RAdd(One, contract.escalation_pct),
                 (month - contract.start_month)
                   \div contract.escalation_frequency_months))

\* C17: a supplier contract contributes nothing before start_month and,
\* in month m from start_month on,
\* base_amount x (1 + escalation_pct)^floor((m - start_month) / frequency); with
\* escalation_pct = 0 that is base_amount in every month, and with
\* escalation_pct = 0.1, frequency 12 and start_month 0 it is base_amount in
\* month 11 and base_amount x 1.1 in month 12.
C17_ContractEscalation ==
  SingleContract =>
    \A k \in DOMAIN monthly_results :
      LET contract == scenario.costs.supplier_contracts[1]
          amount == CenterAmount(monthly_results[k], contract.cost_center)
      IN  /\ amount = ContractDue(contract, k - 1)
          /\ (IsZero(contract.escalation_pct) /\ k - 1 >= contract.start_month)
               => amount = contract.base_amount
          /\ (/\ contract.escalation_pct = Frac(1, 10)
              /\ contract.escalation_frequency_months = 12
              /\ contract.start_month = 0)
               => /\ k - 1 = 11 => amount = contract.base_amount
                  /\ k - 1 = 12 =>
                       amount = RMul(contract.base_amount, Frac(11, 10))

\* The contract of the example, escalated by 10% every 12 months, has been
\* charged in month 11 and in month 12.
C17_Witness ==
  /\ SingleContract
  /\ scenario.costs.supplier_contracts[1].escalation_pct = Frac(1, 10)
  /\ scenario.costs.supplier_contracts[1].escalation_frequency_months = 12
  /\ Len(monthly_results) >= 13
  /\ CenterAmount(monthly_results[12], "other") = R(100)
  /\ CenterAmount(monthly_results[13], "other") = R(110)


\* C18: run is deterministic and leaves its input unchanged: a second
\* invocation with the same calculator and the same input ends as the first
\* did, with an equal result or the same exception, and at no point of either
\* invocation does the input differ from what the caller passed.
C18_RunIsRepeatable ==
  /\ pc # "construct" => scenario = given
  /\ (RunEnded /\ outcomes # <<>>) => Outcome = outcomes[1]

\* A second invocation over the longest horizon has returned, with revenue,
\* payroll and depreciation in one of its months.
C18_Witness ==
  /\ pc = "returned"
  /\ outcomes # <<>>
  /\ Len(result.monthly) = MaxMonths
  /\ \E k \in DOMAIN result.monthly :
       /\ RLt(Zero, result.monthly[k].income_statement.gross_revenue)
       /\ RLt(Zero, result.monthly[k].locals.payroll_total)
       /\ RLt(Zero, result.monthly[k].income_statement.depreciation)


\* C19: two invocations of run at work at once on the shared calculator,
\* their monthly steps interleaved in any order, each end as the run alone of
\* their scenario ends, with an equal result or the same exception.
C19_ConcurrentRunsAsAlone ==
  /\ (RunEnded /\ Len(outcomes) = 2) => Outcome = outcomes[1]
  /\ (RunEnded /\ Len(outcomes) = 3) => Outcome = outcomes[2]

\* Two invocations on different scenarios were inside their loops at the same
\* time, both have returned, and so have the two runs alone.
C19_Witness ==
  /\ Len(outcomes) = 3
  /\ pc = "returned"
  /\ interleaved
  /\ outcomes[1].pc = "returned"
  /\ outcomes[2].pc = "returned"
  /\ outcomes[1].result # outcomes[2].result


\* The last answer is that of GET /scenarios/{id}.
ProjectionAnswered ==
  response # <<>> /\ response.handler = "get_scenario_projection"

\* What the store answers whether or not run raises: the list holds the ids
\* posted, an id never posted is answered 404, and a posted id is answered
\* from a run of the scenario last posted under it.
StoreAnswersFromLastPost ==
  /\ (response # <<>> /\ response.handler = "list_scenarios") =>
       {response.scenarios[k] : k \in DOMAIN response.scenarios} = DOMAIN posts
  /\ ProjectionAnswered =>
       IF response.scenario_id \in DOMAIN posts
         THEN /\ response.status \in {200, 500}
              /\ response.ran = posts[response.scenario_id]
         ELSE response.status = 404

\* C20: after any sequence of POST /scenarios, GET /scenarios lists
\* exactly the ids posted, GET /scenarios/{id} for an id posted answers with
\* the projection of the scenario last stored under it, and for an id never
\* posted answers 404.
C20_StoreAnswers ==
  /\ (response # <<>> /\ response.handler = "list_scenarios") =>
       {response.scenarios[k] : k \in DOMAIN response.scenarios} = DOMAIN posts
  /\ ProjectionAnswered =>
       IF response.scenario_id \in DOMAIN posts
         THEN /\ response.status = 200
              /\ response.ran = posts[response.scenario_id]
              /\ response.result.monthly # <<>>
         ELSE response.status = 404

\* The last answer is that of POST /run.
RunAnswered ==
  response # <<>> /\ response.handler = "run_scenario"

\* C21: POST /run answers 404 when neither an inline scenario nor a
\* known scenario_id resolves; otherwise, whenever the request carries a
\* months value, the run uses it in place of timeframe.months and the result
\* returned has exactly that many monthly entries.
C21_RunUsesMonthsProvided ==
  RunAnswered =>
    IF response.payload.scenario = <<>>
       /\ (response.payload.scenario_id = <<>>
           \/ response.payload.scenario_id[1] \notin DOMAIN posts)
      THEN response.status = 404
      ELSE response.payload.months # <<>> =>
             /\ response.status = 200
             /\ response.ran.timeframe.months = response.payload.months[1]
             /\ Len(response.result.monthly) = response.payload.months[1]

\* What POST /run does with months: a months of 0 is taken as no months, the
\* run is that of the scenario resolved, and any other months replaces
\* timeframe.months; a result returned has as many entries as the run's
\* timeframe.months.
RunOverridesWithTruthyMonths ==
  RunAnswered /\ response.status # 404 =>
    /\ response.ran =
         IF response.payload.months \in {<<>>, <<0>>}
           THEN response.resolved
           ELSE [response.resolved EXCEPT
                   !.timeframe.months = response.payload.months[1]]
    /\ response.status = 200 =>
         Len(response.result.monthly) = response.ran.timeframe.months

\* A request with months 0 for a scenario of two months is answered with the
\* two months of the scenario.
C21_MonthsZeroIgnored ==
  /\ RunAnswered /\ response.status = 200
  /\ response.payload.months = <<0>>
  /\ Len(response.result.monthly) = 2

\* C22: the accumulated_depreciation of the monthly balance sheets never
\* decreases from one month to the next, whatever the capex amounts, salvage
\* values and useful lives, a salvage above the amount included.
C22_AccumulatedDepreciationNeverDecreases ==
  \A k \in DOMAIN monthly_results :
    RLe(IF k = 1 THEN scenario.company_state.accumulated_depreciation
                 ELSE monthly_results[k - 1].balance_sheet.accumulated_depreciation,
        monthly_results[k].balance_sheet.accumulated_depreciation)

\* Two months are reported after the purchase of an item whose salvage value
\* is above its amount and whose life has not ended.
C22_Witness ==
  /\ Len(monthly_results) >= 2
  /\ \E i \in DOMAIN scenario.capex.items :
       /\ RLt(scenario.capex.items[i].amount, scenario.capex.items[i].salvage_value)
       /\ scenario.capex.items[i].month_index = 0
       /\ scenario.capex.items[i].useful_life_months >= 2

\* cash + accounts_receivable + inventory + fixed_assets less
\* accumulated_depreciation of a balance sheet or of the opening state.
AssetsOf(sheet) ==
  RSub(RAdd(RAdd(sheet.cash, sheet.accounts_receivable),
            RAdd(sheet.inventory, sheet.fixed_assets)),
       sheet.accumulated_depreciation)

\* accounts_payable + debt + equity of a balance sheet or the opening state.
ClaimsOf(sheet) ==
  RAdd(RAdd(sheet.accounts_payable, sheet.debt), sheet.equity)

\* The balance sheet month k starts from: that of the month before, or the
\* opening state with the equity run starts from (line 79).
SheetBefore(k) ==
  IF k = 1
    THEN [scenario.company_state EXCEPT
            !.equity = IF Truthy(@) THEN @
                       ELSE RAdd(scenario.company_state.cash,
                                 net_fixed_assets(scenario.company_state))]
    ELSE monthly_results[k - 1].balance_sheet

\* C23: every monthly step preserves the accounting identity: the change
\* of cash + accounts_receivable + inventory + fixed_assets -
\* accumulated_depreciation over the month equals the change of
\* accounts_payable + debt + equity, in months with interest expense, debt
\* draws, capex and backstop injections too.
C23_AccountingIdentityPreserved ==
  \A k \in DOMAIN monthly_results :
    RSub(AssetsOf(monthly_results[k].balance_sheet), AssetsOf(SheetBefore(k)))
      = RSub(ClaimsOf(monthly_results[k].balance_sheet), ClaimsOf(SheetBefore(k)))

\* What the monthly step does: in a month without a backstop injection the
\* assets fall behind the claims by exactly the interest expense, which is
\* taken from net income and again from the financing cash flow.
IdentityOffByInterest ==
  \A k \in DOMAIN monthly_results :
    IsZero(monthly_results[k].locals.shortfall) =>
      RAdd(RSub(AssetsOf(monthly_results[k].balance_sheet),
                AssetsOf(SheetBefore(k))),
           monthly_results[k].income_statement.interest)
        = RSub(ClaimsOf(monthly_results[k].balance_sheet),
               ClaimsOf(SheetBefore(k)))

\* A month with interest expense and no backstop injection whose assets
\* changed by less than its claims.
C23_InterestTakenTwice ==
  \E k \in DOMAIN monthly_results :
    /\ IsZero(monthly_results[k].locals.shortfall)
    /\ RLt(Zero, monthly_results[k].income_statement.interest)
    /\ RLt(RSub(AssetsOf(monthly_results[k].balance_sheet),
                AssetsOf(SheetBefore(k))),
           RSub(ClaimsOf(monthly_results[k].balance_sheet),
                ClaimsOf(SheetBefore(k))))

\* operating + investing + financing cash flow as stored for month k.
ThreeFlows(k) ==
  RAdd(RAdd(monthly_results[k].cash_flow.operating_cash_flow,
            monthly_results[k].cash_flow.investing_cash_flow),
       monthly_results[k].cash_flow.financing_cash_flow)

\* The cash month k starts from, its net change and the shortfall injected.
CashExpected(k) ==
  RAdd(RAdd(SheetBefore(k).cash, monthly_results[k].cash_flow.net_change_in_cash),
       monthly_results[k].locals.shortfall)

SingleDebtWithGrace ==
  /\ Len(scenario.funding.debt) = 1
  /\ scenario.funding.debt[1].grace_period_months > 0
  /\ scenario.funding.debt[1].term_months >= 1
  /\ RLt(Zero, scenario.funding.debt[1].amount)

\* The months run has completed since the instrument was drawn, the month of
\* the draw included.
MonthsSinceDraw == Len(monthly_results) - scenario.funding.debt[1].month_index

\* The sum of the principal paid in the months reported.
PrincipalPaidSoFar ==
  RSum([k \in DOMAIN monthly_results |-> monthly_results[k].locals.principal_paid])

\* The grace period, the repayment and the discard of one instrument, as
\* seen after the month run has just completed.
GraceThenRepaid ==
  LET debt == scenario.funding.debt[1]
      g == debt.grace_period_months
      T == debt.term_months
      e == MonthsSinceDraw
      month == monthly_results[Len(monthly_results)]
  IN  /\ e \in 1..g =>
           /\ month.income_statement.interest =
                RMul(debt.amount, RDiv(debt.interest_rate_annual, R(12)))
           /\ IsZero(month.locals.principal_paid)
           /\ Len(debt_states) = 1
           /\ debt_states[1].outstanding = debt.amount
           /\ debt_states[1].remaining_term = T
      /\ e \in (g + 1)..(g + T) => RLt(Zero, month.locals.principal_paid)
      /\ e \in (g + 1)..(g + T - 1) =>
           /\ Len(debt_states) = 1
           /\ debt_states[1].remaining_term = T - (e - g)
      /\ e >= g + T =>
           /\ debt_states = <<>>
           /\ PrincipalPaidSoFar = debt.amount

\* C25 as stated: an instrument with a grace period of g > 0 months and a
\* term of T drawn at month m0 is charged interest on its full amount, repays
\* nothing and keeps remaining_term = T in the months m0..m0+g-1, starts to
\* repay in month m0+g, and is fully repaid and discarded in month m0+g+T-1.
C25_GraceThenRepaidOverTerm ==
  (pc = "loop" /\ SingleDebtWithGrace) => GraceThenRepaid

\* C25: the same, for an instrument whose monthly repayment amount / T
\* exceeds the discard threshold of 1e-6 (or whose term is one month): a
\* smaller one is discarded, with what is left of it, after the first
\* repayment that leaves 1e-6 or less outstanding.
C25_GraceThenRepaidAboveThreshold ==
  (/\ pc = "loop"
   /\ SingleDebtWithGrace
   /\ \/ scenario.funding.debt[1].term_months = 1
      \/ RLt(DebtEpsilon, RDiv(scenario.funding.debt[1].amount,
                               R(scenario.funding.debt[1].term_months)))) =>
    GraceThenRepaid

\* An instrument with two months of grace drawn at month 1 has been repaid
\* over its term of two months and discarded in month 4.
C25_Witness ==
  /\ pc = "loop"
  /\ SingleDebtWithGrace
  /\ scenario.funding.debt[1].grace_period_months = 2
  /\ scenario.funding.debt[1].term_months = 2
  /\ Len(monthly_results) = 5
  /\ RLt(Zero, monthly_results[4].balance_sheet.debt)
  /\ IsZero(monthly_results[5].balance_sheet.debt)
  /\ debt_states = <<>>

\* The opening fixed assets cover the opening accumulated depreciation and
\* every capex item has a salvage value between 0 and its amount.
BookValuesCovered ==
  /\ RLe(scenario.company_state.accumulated_depreciation,
         scenario.company_state.fixed_assets)
  /\ \A i \in DOMAIN scenario.capex.items :
       /\ RLe(Zero, scenario.capex.items[i].salvage_value)
       /\ RLe(scenario.capex.items[i].salvage_value, scenario.capex.items[i].amount)

\* C26: if the opening fixed assets are at least the opening accumulated
\* depreciation and every capex item has 0 <= salvage_value <= amount, then
\* fixed_assets - accumulated_depreciation is non-negative on every monthly
\* balance sheet: no item is depreciated by more than amount - salvage_value.
C26_NetFixedAssetsNonNegative ==
  BookValuesCovered =>
    \A k \in DOMAIN monthly_results :
      RLe(monthly_results[k].balance_sheet.accumulated_depreciation,
          monthly_results[k].balance_sheet.fixed_assets)

\* One item of amount 36 without salvage and a life of two months, bought in
\* month 0 with no opening assets: after two months 54 has been depreciated.
C26_DepreciatedBelowZero ==
  /\ BookValuesCovered
  /\ Len(scenario.capex.items) = 1
  /\ scenario.capex.items[1] = Capex(0, R(36), 2, Zero)
  /\ IsZero(scenario.company_state.fixed_assets)
  /\ Len(monthly_results) >= 2
  /\ monthly_results[2].balance_sheet.fixed_assets = R(36)
  /\ monthly_results[2].balance_sheet.accumulated_depreciation = R(54)

\* The instruments drawn in the months reported so far.
DrawnSoFar ==
  SelectSeq(scenario.funding.debt,
            LAMBDA instrument : instrument.month_index < Len(monthly_results))

\* The debt balance last reported less the opening debt and the outstanding
\* of the live states: what the discarded instruments left unpaid.
DiscardedResiduals ==
  RSub(RSub(monthly_results[Len(monthly_results)].balance_sheet.debt,
            scenario.company_state.debt),
       RSum([k \in DOMAIN debt_states |-> debt_states[k].outstanding]))

RECURSIVE OwnState(_, _)
OwnState(plan, months) ==
  IF months = 0
    THEN PlanState(plan.initial_customers,
                   [q \in 1..plan.revenue_deferral_months |-> Zero])
    ELSE RevenuePlanStep(months - 1, plan, OwnState(plan, months - 1)).state

\* C28: each revenue plan evolves its own running state: after every
\* month the active_customers and the deferred_revenue queue held for a plan
\* are those its own configuration and history give, whatever other plans
\* the scenario has, one of the same name included.
C28_PlanStateIsItsOwn ==
  pc = "loop" =>
    \A i \in DOMAIN scenario.revenue.plans :
      plan_states[scenario.revenue.plans[i].name] =
        OwnState(scenario.revenue.plans[i], Len(monthly_results))

\* What holds: a plan whose name no other plan of the scenario carries
\* evolves its own state.
PlanStateIsItsOwnUnderDistinctNames ==
  pc = "loop" =>
    \A i \in DOMAIN scenario.revenue.plans :
      (\A j \in DOMAIN scenario.revenue.plans :
         scenario.revenue.plans[j].name = scenario.revenue.plans[i].name => j = i)
        => plan_states[scenario.revenue.plans[i].name] =
             OwnState(scenario.revenue.plans[i], Len(monthly_results))

\* Two plans named "a", of 10 and of 20 customers, after one month: the one
\* state held under the name has the customers of neither plan alone.
C28_SharedState ==
  /\ pc = "loop"
  /\ Len(monthly_results) = 1
  /\ Len(scenario.revenue.plans) = 2
  /\ scenario.revenue.plans[1].name = scenario.revenue.plans[2].name
  /\ \A i \in {1, 2} :
       plan_states[scenario.revenue.plans[i].name].active_customers #
         OwnState(scenario.revenue.plans[i], 1).active_customers

C30_StoreUnchangedByRuns ==
  [][posts' = posts => SCENARIOS' = SCENARIOS]_vars

\* POST /run for a stored id with a months override of 3 has been answered
\* with three months while the scenario stored under the id still has two.
C30_Witness ==
  /\ RunAnswered /\ response.status = 200
  /\ response.payload.scenario = <<>>
  /\ response.payload.months = <<3>>
  /\ Len(response.result.monthly) = 3
  /\ Lookup(SCENARIOS, response.payload.scenario_id[1])[1].scenario.timeframe.months = 2

====
